---- MODULE Spec2Model ----
(***************************************************************************)
(* Ledger of maya-send-backend: the request handlers that move value       *)
(* between accounts (P2P transfer, email payments, dispute and admin       *)
(* refunds, withdrawals, admin balance adjustment) over the shared         *)
(* datastore.  A handler is a sequence of datastore operations separated   *)
(* by awaits; each datastore operation, together with the synchronous code *)
(* that follows it, is one step, and steps of different requests           *)
(* interleave.  Writes made inside prisma.$transaction become visible to   *)
(* other requests at the commit only; a relative update (increment /       *)
(* decrement) applies to the value the row has when it is applied.         *)
(***************************************************************************)
EXTENDS Integers, Sequences, FiniteSets, TLC

VARIABLES balance, isSuspended, isDeleted, transactions, emailPayments,
          disputes, withdrawals, now, req, fraudRules, fraudAlerts, job,
          kycStatus, userIsFlagged, riskScore

accounts == <<balance, isSuspended, isDeleted>>
tables == <<transactions, emailPayments, disputes, withdrawals>>
\* The fraud engine's rules and alerts, and the evaluations in progress.
\* What the risk scorer reads of an account besides the ledger (its KYC
\* state and its flag), and the scores it has returned.
risk == <<kycStatus, userIsFlagged, riskScore>>
fraud == <<fraudRules, fraudAlerts, job, risk>>
vars == <<balance, isSuspended, isDeleted, transactions, emailPayments,
          disputes, withdrawals, now, req, fraudRules, fraudAlerts, job,
          kycStatus, userIsFlagged, riskScore>>

(* ---------------------------- bounds ----------------------------------- *)

\* Requests the model lets arrive (ids are given in arrival order).
MaxReqs == 2
\* Largest amount a request body names.
MaxAmount == 2
\* Largest value of the clock (days).
MaxTime == 2

(* --------------------------- accounts ---------------------------------- *)

Users == {"a", "b", "c"}

\* Accounts store their e-mail lower-cased (register); the account's id is
\* used as its address.
EmailOf(u) == u

\* recipientEmail.toLowerCase()
ToLowerCase(e) == IF e = "B" THEN "b" ELSE e

\* Addresses a request body may name: one per account, one written in upper
\* case, one that belongs to no account.
EmailInputs == Users \cup {"B", "nobody"}

\* prisma.user.findUnique({ where: { email } }): the set of matching accounts
\* (empty or a singleton).
FindUserByEmail(e) == {u \in Users : EmailOf(u) = e}

\* Amounts a request body may carry: JSON numbers, among them 0 and a
\* negative one.
AmountInputs == (0 - 1) .. MaxAmount

InitBalance == [u \in Users |-> CASE u = "a" -> 2 [] u = "b" -> 1 [] OTHER -> 0]

(* ---------------------------- requests --------------------------------- *)

Reqs == 1 .. MaxReqs

NoUser == "none"

\* A request: where its handler stands (pc), the handler (kind), the
\* authenticated user, the body's fields (email, amt, days, ref) and the
\* handler's locals (rcpt, expiresAt).  Once the handler has returned, what
\* is left is the response (result), the statement it returned from (at) and
\* the request's user and object (ref).
Idle == [pc |-> "idle", kind |-> "none", user |-> NoUser, email |-> "none",
         amt |-> 0, days |-> 0, rcpt |-> NoUser, ref |-> 0, expiresAt |-> 0,
         result |-> "none", at |-> "none"]

Done(q, code) == [Idle EXCEPT !.pc = "done", !.kind = q.kind, !.user = q.user,
                              !.ref = q.ref, !.result = code, !.at = q.pc]

\* The next request to arrive is the lowest one not yet started.
CanStart(r) == /\ req[r].pc = "idle"
               /\ \A q \in Reqs : q < r => req[q].pc # "idle"

\* authenticateUser: the bearer's account is neither suspended nor deleted.
authenticateUser(u) == ~isSuspended[u] /\ ~isDeleted[u]

\* The handler returns: res.status(...).json(...) with the given code.
Respond(r, code) == req' = [req EXCEPT ![r] = Done(req[r], code)]

Goto(r, label) == req' = [req EXCEPT ![r].pc = label]

(* ------------------------ fraud evaluations ---------------------------- *)

\* An evaluation by checkTransaction(transaction): where it stands (pc),
\* what it was given as its argument (arg: "id", the transaction's id, as
\* sendMoney passes; "result", the created transaction with its sender's
\* email and fullName; "full", the transaction with its sender's row), the
\* transaction meant (tx), the active rules it loaded (rules, as indices of
\* fraudRules), the rule it is at (idx) and the alerts it has created and
\* will return (alerts, by rule).  One evaluation per request.
NoJob == [pc |-> "none", arg |-> "none", tx |-> 0, rules |-> <<>>, idx |-> 0,
          alerts |-> <<>>]

\* checkTransaction is called: it runs up to its first await, the query of
\* the active rules.
StartJob(kind, t) == [NoJob EXCEPT !.pc = "findRules", !.arg = kind, !.tx = t]

\* No rule is configured, no alert raised, no evaluation running.
\* No score has been computed.
NoScore == [userId |-> NoUser, score |-> 0 - 1]

\* Every account verified and unflagged, no score computed.
InitNoScores ==
    /\ kycStatus = [u \in Users |-> "VERIFIED"]
    /\ userIsFlagged = [u \in Users |-> FALSE]
    /\ riskScore = [r \in Reqs |-> NoScore]

InitNoRules ==
    /\ fraudRules = <<>>
    /\ fraudAlerts = <<>>
    /\ job = [r \in Reqs |-> NoJob]
    /\ InitNoScores

(* ------------------------- sendMoney (P2P) ----------------------------- *)

\* Authentication, then the input validation that precedes the first read.
SendMoneyStart(r, s, e, a) ==
    /\ CanStart(r)
    /\ authenticateUser(s)
    /\ LET q == [Idle EXCEPT !.kind = "sendMoney", !.user = s, !.email = e,
                             !.amt = a]
       IN  req' = [req EXCEPT ![r] =
                 IF a = 0 THEN Done(q, "MISSING_FIELDS")
                 ELSE IF a <= 0 THEN Done(q, "INVALID_AMOUNT")
                 ELSE [q EXCEPT !.pc = "validated"]]
    /\ UNCHANGED <<accounts, tables, now, fraud>>

\* Reads the sender and checks the balance it read.
SendMoneyGetSender(r) ==
    /\ req[r].kind = "sendMoney" /\ req[r].pc = "validated"
    /\ IF balance[req[r].user] < req[r].amt
           THEN Respond(r, "INSUFFICIENT_BALANCE")
           ELSE Goto(r, "gotSender")
    /\ UNCHANGED <<accounts, tables, now, fraud>>

\* SendMoneyGetRecipient without the sender-equals-recipient check.
SendMoneyGetRecipientNoSelfCheck(r) ==
    /\ req[r].kind = "sendMoney" /\ req[r].pc = "gotSender"
    /\ LET found == FindUserByEmail(ToLowerCase(req[r].email))
       IN  IF found = {}
               THEN Respond(r, "RECIPIENT_NOT_FOUND")
           ELSE LET rc == CHOOSE u \in found : TRUE
                IN  IF isSuspended[rc] \/ isDeleted[rc]
                        THEN Respond(r, "RECIPIENT_UNAVAILABLE")
                    ELSE req' = [req EXCEPT ![r].pc = "checked", ![r].rcpt = rc]
    /\ UNCHANGED <<accounts, tables, now, fraud>>

\* Reads the recipient by address and checks it can receive.
SendMoneyGetRecipient(r) ==
    /\ req[r].kind = "sendMoney" /\ req[r].pc = "gotSender"
    /\ LET found == FindUserByEmail(ToLowerCase(req[r].email))
       IN  IF found = {}
               THEN Respond(r, "RECIPIENT_NOT_FOUND")
           ELSE LET rc == CHOOSE u \in found : TRUE
                IN  IF isSuspended[rc] \/ isDeleted[rc]
                        THEN Respond(r, "RECIPIENT_UNAVAILABLE")
                    ELSE IF req[r].user = rc
                        THEN Respond(r, "CANNOT_SEND_TO_SELF")
                    ELSE req' = [req EXCEPT ![r].pc = "checked", ![r].rcpt = rc]
    /\ UNCHANGED <<accounts, tables, now, fraud>>

\* Inside prisma.$transaction: the sender's decrement, not yet committed.
SendMoneyTxDebit(r) ==
    /\ req[r].kind = "sendMoney" /\ req[r].pc = "checked"
    /\ Goto(r, "txDebited")
    /\ UNCHANGED <<accounts, tables, now, fraud>>

\* Inside prisma.$transaction: the recipient's increment, not yet committed.
SendMoneyTxCredit(r) ==
    /\ req[r].kind = "sendMoney" /\ req[r].pc = "txDebited"
    /\ Goto(r, "txCredited")
    /\ UNCHANGED <<accounts, tables, now, fraud>>

P2PRecord(r) == [senderId |-> req[r].user, recipientId |-> req[r].rcpt,
                 amount |-> req[r].amt, transactionType |-> "P2P",
                 status |-> "COMPLETED", isRefunded |-> FALSE,
                 isFlagged |-> FALSE, refOf |-> 0, disputeId |-> 0,
                 createdAt |-> now]

\* SendMoneyTxCreate crediting the sender's own row instead of the
\* recipient's.
SendMoneyTxCreateWrongRow(r) ==
    /\ req[r].kind = "sendMoney" /\ req[r].pc = "txCredited"
    /\ balance' = [balance EXCEPT ![req[r].user] = @ - req[r].amt + req[r].amt]
    /\ transactions' = Append(transactions, P2PRecord(r))
    /\ job' = [job EXCEPT ![r] = StartJob("id", Len(transactions) + 1)]
    /\ Respond(r, "ok")
    /\ UNCHANGED <<isSuspended, isDeleted, emailPayments, disputes,
                   withdrawals, now, fraudRules, fraudAlerts, risk>>

\* The record is created and the transaction commits: both decrement and
\* increment and the record become visible together.  The handler then calls
\* checkTransaction(result.id) without awaiting it and answers 201.
SendMoneyTxCreate(r) ==
    /\ req[r].kind = "sendMoney" /\ req[r].pc = "txCredited"
    /\ balance' = [balance EXCEPT ![req[r].user] = @ - req[r].amt,
                                  ![req[r].rcpt] = @ + req[r].amt]
    /\ transactions' = Append(transactions, P2PRecord(r))
    /\ job' = [job EXCEPT ![r] = StartJob("id", Len(transactions) + 1)]
    /\ Respond(r, "ok")
    /\ UNCHANGED <<isSuspended, isDeleted, emailPayments, disputes,
                   withdrawals, now, fraudRules, fraudAlerts, risk>>

\* SendMoneyTxFail when the updates are issued outside the transaction
\* (on prisma instead of tx): what was written before the failure stays.
SendMoneyTxFailNoRollback(r) ==
    /\ req[r].kind = "sendMoney"
    /\ req[r].pc \in {"checked", "txDebited", "txCredited"}
    /\ balance' = [balance EXCEPT
          ![req[r].user] = IF req[r].pc = "checked" THEN @ ELSE @ - req[r].amt,
          ![req[r].rcpt] = IF req[r].pc = "txCredited" THEN @ + req[r].amt ELSE @]
    /\ Respond(r, "SEND_MONEY_FAILED")
    /\ UNCHANGED <<isSuspended, isDeleted, tables, now, fraud>>

\* A failure inside the transaction (datastore error, deadlock, crash):
\* the transaction rolls back and the handler answers 500.
SendMoneyTxFail(r) ==
    /\ req[r].kind = "sendMoney"
    /\ req[r].pc \in {"checked", "txDebited", "txCredited"}
    /\ Respond(r, "SEND_MONEY_FAILED")
    /\ UNCHANGED <<accounts, tables, now, fraud>>

(* --------------------- sendViaEmail (escrow create) -------------------- *)

\* expiryDays when the body gives none, and what a zero one falls back to
\* (expiryDays = 7 in the destructuring, expiryDays || 7 in setDate).
DefaultExpiryDays == 7

\* Largest expiryDays a request body names.
MaxDays == 1

DaysInputs == 0 .. MaxDays

\* expiresAt.setDate(expiresAt.getDate() + (expiryDays || 7))
ExpiryOf(t, d) == t + (IF d = 0 THEN DefaultExpiryDays ELSE d)

SendViaEmailStart(r, s, e, a, d) ==
    /\ CanStart(r)
    /\ authenticateUser(s)
    /\ LET q == [Idle EXCEPT !.kind = "sendViaEmail", !.user = s, !.email = e,
                             !.amt = a, !.days = d]
       IN  req' = [req EXCEPT ![r] =
                 IF a = 0 THEN Done(q, "MISSING_FIELDS")
                 ELSE IF a <= 0 THEN Done(q, "INVALID_AMOUNT")
                 ELSE [q EXCEPT !.pc = "validated"]]
    /\ UNCHANGED <<accounts, tables, now, fraud>>

\* Reads the sender, checks the balance it read, then computes the expiry
\* date from the current time.
SendViaEmailGetSender(r) ==
    /\ req[r].kind = "sendViaEmail" /\ req[r].pc = "validated"
    /\ IF balance[req[r].user] < req[r].amt
           THEN Respond(r, "INSUFFICIENT_BALANCE")
           ELSE req' = [req EXCEPT ![r].pc = "checked",
                                   ![r].expiresAt = ExpiryOf(now, req[r].days)]
    /\ UNCHANGED <<accounts, tables, now, fraud>>

HoldRecord(r) == [senderId |-> req[r].user,
                  recipientEmail |-> ToLowerCase(req[r].email),
                  amount |-> req[r].amt, status |-> "PENDING",
                  expiresAt |-> req[r].expiresAt, claimedById |-> NoUser]

\* SendViaEmailTx creating the payment without the sender's decrement.
SendViaEmailTxNoDebit(r) ==
    /\ req[r].kind = "sendViaEmail" /\ req[r].pc = "checked"
    /\ emailPayments' = Append(emailPayments, HoldRecord(r))
    /\ req' = [req EXCEPT ![r] =
                  Done([req[r] EXCEPT !.ref = Len(emailPayments) + 1], "ok")]
    /\ UNCHANGED <<accounts, transactions, disputes, withdrawals, now, fraud>>

\* prisma.$transaction: the sender's decrement and the new email payment
\* commit together.
SendViaEmailTx(r) ==
    /\ req[r].kind = "sendViaEmail" /\ req[r].pc = "checked"
    /\ balance' = [balance EXCEPT ![req[r].user] = @ - req[r].amt]
    /\ emailPayments' = Append(emailPayments, HoldRecord(r))
    /\ req' = [req EXCEPT ![r] =
                  Done([req[r] EXCEPT !.ref = Len(emailPayments) + 1], "ok")]
    /\ UNCHANGED <<isSuspended, isDeleted, transactions, disputes,
                   withdrawals, now, fraud>>

\* A failure inside a handler's transaction: it rolls back, nothing of it
\* is applied, and the handler's catch block answers 500 with its code.
FailureCode(k) ==
    CASE k = "sendViaEmail" -> "SEND_VIA_EMAIL_FAILED"
      [] k = "claimPayment" -> "CLAIM_PAYMENT_FAILED"
      [] k = "cancelPayment" -> "CANCEL_PAYMENT_FAILED"
      [] k = "cancelEmailPayment" -> "CANCEL_EMAIL_PAYMENT_FAILED"
      [] k = "refundTransaction" -> "REFUND_FAILED"
      [] k = "approveWithdrawal" -> "APPROVE_WITHDRAWAL_FAILED"
      [] OTHER -> "FAILED"

EscrowTxFail(r) ==
    /\ req[r].kind \in {"sendViaEmail", "claimPayment", "cancelPayment",
                        "cancelEmailPayment"}
    /\ req[r].pc = "checked"
    /\ Respond(r, FailureCode(req[r].kind))
    /\ UNCHANGED <<accounts, tables, now, fraud>>

(* ------------------------- claimPayment -------------------------------- *)

\* Claim codes and ids a request may name: those of the payments that exist
\* and one that matches none.  A payment's claim code is modelled by its id
\* (both are unique per payment).
IdInputs(table) == 1 .. (Len(table) + 1)

ClaimPaymentStart(r, u, code) ==
    /\ CanStart(r)
    /\ authenticateUser(u)
    /\ req' = [req EXCEPT ![r] = [Idle EXCEPT !.kind = "claimPayment",
                                    !.user = u, !.ref = code,
                                    !.pc = "validated"]]
    /\ UNCHANGED <<accounts, tables, now, fraud>>

\* findFirst({ claimCode, status: 'PENDING' }), then the expiry check.
ClaimPaymentGetPayment(r) ==
    /\ req[r].kind = "claimPayment" /\ req[r].pc = "validated"
    /\ IF ~(req[r].ref \in DOMAIN emailPayments
            /\ emailPayments[req[r].ref].status = "PENDING")
           THEN Respond(r, "PAYMENT_NOT_FOUND")
       ELSE IF emailPayments[req[r].ref].expiresAt < now
           THEN Respond(r, "PAYMENT_EXPIRED")
       ELSE Goto(r, "gotPayment")
    /\ UNCHANGED <<accounts, tables, now, fraud>>

\* Reads the claimant and compares its e-mail with the payment's.
ClaimPaymentGetUser(r) ==
    /\ req[r].kind = "claimPayment" /\ req[r].pc = "gotPayment"
    /\ IF EmailOf(req[r].user) # emailPayments[req[r].ref].recipientEmail
           THEN Respond(r, "UNAUTHORIZED")
           ELSE Goto(r, "checked")
    /\ UNCHANGED <<accounts, tables, now, fraud>>

ClaimRecord(r) == [senderId |-> emailPayments[req[r].ref].senderId,
                   recipientId |-> req[r].user,
                   amount |-> emailPayments[req[r].ref].amount,
                   transactionType |-> "EMAIL_PAYMENT",
                   status |-> "COMPLETED", isRefunded |-> FALSE,
                   isFlagged |-> FALSE,
                   refOf |-> req[r].ref, disputeId |-> 0, createdAt |-> now]

\* prisma.$transaction: update({ where: { id } }) sets CLAIMED whatever the
\* status now is, the claimant is credited, the record is created.
ClaimPaymentTx(r) ==
    /\ req[r].kind = "claimPayment" /\ req[r].pc = "checked"
    /\ emailPayments' = [emailPayments EXCEPT
                            ![req[r].ref].status = "CLAIMED",
                            ![req[r].ref].claimedById = req[r].user]
    /\ balance' = [balance EXCEPT
                      ![req[r].user] = @ + emailPayments[req[r].ref].amount]
    /\ transactions' = Append(transactions, ClaimRecord(r))
    /\ Respond(r, "ok")
    /\ UNCHANGED <<isSuspended, isDeleted, disputes, withdrawals, now, fraud>>

(* ------------------- cancelPayment / cancelEmailPayment ---------------- *)

CancelPaymentStart(r, u, id) ==
    /\ CanStart(r)
    /\ authenticateUser(u)
    /\ req' = [req EXCEPT ![r] = [Idle EXCEPT !.kind = "cancelPayment",
                                    !.user = u, !.ref = id,
                                    !.pc = "validated"]]
    /\ UNCHANGED <<accounts, tables, now, fraud>>

\* findFirst({ id, senderId: userId }), then the status check.
CancelPaymentGetPayment(r) ==
    /\ req[r].kind = "cancelPayment" /\ req[r].pc = "validated"
    /\ IF ~(req[r].ref \in DOMAIN emailPayments
            /\ emailPayments[req[r].ref].senderId = req[r].user)
           THEN Respond(r, "PAYMENT_NOT_FOUND")
       ELSE IF emailPayments[req[r].ref].status # "PENDING"
           THEN Respond(r, "PAYMENT_NOT_PENDING")
       ELSE Goto(r, "checked")
    /\ UNCHANGED <<accounts, tables, now, fraud>>

\* prisma.$transaction: update({ where: { id } }) sets CANCELLED whatever the
\* status now is, and the sender is refunded.
CancelPaymentTx(r) ==
    /\ req[r].kind = "cancelPayment" /\ req[r].pc = "checked"
    /\ emailPayments' = [emailPayments EXCEPT ![req[r].ref].status = "CANCELLED"]
    /\ balance' = [balance EXCEPT
                      ![req[r].user] = @ + emailPayments[req[r].ref].amount]
    /\ Respond(r, "ok")
    /\ UNCHANGED <<isSuspended, isDeleted, transactions, disputes,
                   withdrawals, now, fraud>>

\* The admin's cancel (the reason is given).
CancelEmailPaymentStart(r, id) ==
    /\ CanStart(r)
    /\ req' = [req EXCEPT ![r] = [Idle EXCEPT !.kind = "cancelEmailPayment",
                                    !.ref = id, !.pc = "validated"]]
    /\ UNCHANGED <<accounts, tables, now, fraud>>

CancelEmailPaymentGetPayment(r) ==
    /\ req[r].kind = "cancelEmailPayment" /\ req[r].pc = "validated"
    /\ IF ~(req[r].ref \in DOMAIN emailPayments)
           THEN Respond(r, "EMAIL_PAYMENT_NOT_FOUND")
       ELSE IF emailPayments[req[r].ref].status # "PENDING"
           THEN Respond(r, "INVALID_PAYMENT_STATUS")
       ELSE Goto(r, "checked")
    /\ UNCHANGED <<accounts, tables, now, fraud>>

CancelEmailPaymentTx(r) ==
    /\ req[r].kind = "cancelEmailPayment" /\ req[r].pc = "checked"
    /\ emailPayments' = [emailPayments EXCEPT ![req[r].ref].status = "CANCELLED"]
    /\ balance' = [balance EXCEPT
                      ![emailPayments[req[r].ref].senderId] =
                          @ + emailPayments[req[r].ref].amount]
    /\ Respond(r, "ok")
    /\ UNCHANGED <<isSuspended, isDeleted, transactions, disputes,
                   withdrawals, now, fraud>>

(* --------------------------- resolveDispute ---------------------------- *)

\* refundAmount values a resolve request may carry (0: none given).
RefundInputs == 0 .. MaxAmount

\* The admin's resolve (the resolution text is given).
ResolveDisputeStart(r, id, a) ==
    /\ CanStart(r)
    /\ req' = [req EXCEPT ![r] = [Idle EXCEPT !.kind = "resolveDispute",
                                    !.ref = id, !.amt = a,
                                    !.pc = "validated"]]
    /\ UNCHANGED <<accounts, tables, now, fraud>>

\* ResolveDisputeGetDispute without the check of the refund against the
\* original amount.
ResolveDisputeGetDisputeNoAmountCheck(r) ==
    /\ req[r].kind = "resolveDispute" /\ req[r].pc = "validated"
    /\ IF ~(req[r].ref \in DOMAIN disputes)
           THEN Respond(r, "DISPUTE_NOT_FOUND")
       ELSE IF disputes[req[r].ref].status \in {"RESOLVED", "CLOSED"}
           THEN Respond(r, "DISPUTE_ALREADY_RESOLVED")
       ELSE IF req[r].amt > 0
           THEN Goto(r, "checked")
       ELSE Goto(r, "refunded")
    /\ UNCHANGED <<accounts, tables, now, fraud>>

\* findUnique({ where: { id }, include: { transaction } }), the status check
\* and, when a refund is asked for, the check against the original amount.
ResolveDisputeGetDispute(r) ==
    /\ req[r].kind = "resolveDispute" /\ req[r].pc = "validated"
    /\ IF ~(req[r].ref \in DOMAIN disputes)
           THEN Respond(r, "DISPUTE_NOT_FOUND")
       ELSE IF disputes[req[r].ref].status \in {"RESOLVED", "CLOSED"}
           THEN Respond(r, "DISPUTE_ALREADY_RESOLVED")
       ELSE IF req[r].amt > 0
           THEN IF req[r].amt
                     > transactions[disputes[req[r].ref].transactionId].amount
                    THEN Respond(r, "INVALID_REFUND_AMOUNT")
                    ELSE Goto(r, "checked")
       ELSE Goto(r, "refunded")
    /\ UNCHANGED <<accounts, tables, now, fraud>>

\* RefundRecord paying the refund of a dispute to the account that filed
\* it, from the other party of the transaction.
RefundRecordToFiler(t, a, d) ==
    LET filer == IF d \in DOMAIN disputes THEN disputes[d].userId
                 ELSE transactions[t].senderId
        other == IF filer = transactions[t].senderId
                     THEN transactions[t].recipientId
                     ELSE transactions[t].senderId
    IN  [senderId |-> other, recipientId |-> filer,
         amount |-> a, transactionType |-> "REFUND",
         status |-> "COMPLETED", isRefunded |-> FALSE, isFlagged |-> FALSE,
         refOf |-> t, disputeId |-> d, createdAt |-> now]

\* The ledger record of a refund of amount a of transaction t, for dispute
\* d (0: an admin refund, which names no dispute).
RefundRecord(t, a, d) == [senderId |-> transactions[t].recipientId,
                          recipientId |-> transactions[t].senderId,
                          amount |-> a, transactionType |-> "REFUND",
                          status |-> "COMPLETED", isRefunded |-> FALSE,
                          isFlagged |-> FALSE,
                          refOf |-> t, disputeId |-> d, createdAt |-> now]

\* The balances after amount a of transaction t went back from its
\* recipient to its sender (increment, then decrement).
RefundBalances(t, a) ==
    LET credited == [balance EXCEPT ![transactions[t].senderId] = @ + a]
    IN  [credited EXCEPT ![transactions[t].recipientId] = @ - a]

\* prisma.$transaction: the original sender is credited, the original
\* recipient debited and the REFUND record created.
ResolveDisputeRefundTx(r) ==
    /\ req[r].kind = "resolveDispute" /\ req[r].pc = "checked"
    /\ balance' = RefundBalances(disputes[req[r].ref].transactionId, req[r].amt)
    /\ transactions' = Append(transactions,
           RefundRecord(disputes[req[r].ref].transactionId, req[r].amt,
                        req[r].ref))
    /\ Goto(r, "refunded")
    /\ UNCHANGED <<isSuspended, isDeleted, emailPayments, disputes,
                   withdrawals, now, fraud>>

\* prisma.dispute.update({ where: { id } }): RESOLVED, after the refund's
\* transaction has committed.
ResolveDisputeUpdate(r) ==
    /\ req[r].kind = "resolveDispute" /\ req[r].pc = "refunded"
    /\ disputes' = [disputes EXCEPT ![req[r].ref].status = "RESOLVED",
                                    ![req[r].ref].refundAmount = req[r].amt]
    /\ Respond(r, "ok")
    /\ UNCHANGED <<accounts, transactions, emailPayments, withdrawals, now, fraud>>

\* A datastore failure in the refund's transaction (it rolls back) or in
\* the dispute's update (the committed refund stays).
ResolveDisputeFail(r) ==
    /\ req[r].kind = "resolveDispute"
    /\ req[r].pc \in {"checked", "refunded"}
    /\ Respond(r, "RESOLVE_DISPUTE_FAILED")
    /\ UNCHANGED <<accounts, tables, now, fraud>>

(* -------------------------- refundTransaction -------------------------- *)

\* The admin's refund of a transaction (the reason is given).
RefundTransactionStart(r, id) ==
    /\ CanStart(r)
    /\ req' = [req EXCEPT ![r] = [Idle EXCEPT !.kind = "refundTransaction",
                                    !.ref = id, !.pc = "validated"]]
    /\ UNCHANGED <<accounts, tables, now, fraud>>

RefundTransactionGetTransaction(r) ==
    /\ req[r].kind = "refundTransaction" /\ req[r].pc = "validated"
    /\ IF ~(req[r].ref \in DOMAIN transactions)
           THEN Respond(r, "TRANSACTION_NOT_FOUND")
       ELSE IF transactions[req[r].ref].status # "COMPLETED"
           THEN Respond(r, "INVALID_TRANSACTION_STATUS")
       ELSE IF transactions[req[r].ref].isRefunded
           THEN Respond(r, "ALREADY_REFUNDED")
       ELSE req' = [req EXCEPT ![r].pc = "checked",
                               ![r].amt = transactions[req[r].ref].amount]
    /\ UNCHANGED <<accounts, tables, now, fraud>>

\* prisma.$transaction: the original is marked refunded, its full amount
\* (as read) goes back and the REFUND record is created.
RefundTransactionTx(r) ==
    /\ req[r].kind = "refundTransaction" /\ req[r].pc = "checked"
    /\ balance' = RefundBalances(req[r].ref, req[r].amt)
    /\ transactions' = Append([transactions EXCEPT ![req[r].ref].isRefunded = TRUE],
                              RefundRecord(req[r].ref, req[r].amt, 0))
    /\ Respond(r, "ok")
    /\ UNCHANGED <<isSuspended, isDeleted, emailPayments, disputes,
                   withdrawals, now, fraud>>

(* --------------------------- approveWithdrawal ------------------------- *)

ApproveWithdrawalStart(r, id) ==
    /\ CanStart(r)
    /\ req' = [req EXCEPT ![r] = [Idle EXCEPT !.kind = "approveWithdrawal",
                                    !.ref = id, !.pc = "validated"]]
    /\ UNCHANGED <<accounts, tables, now, fraud>>

\* findUnique({ where: { id }, include: { user } }), the status check and
\* the check of the balance read with it.
ApproveWithdrawalGetWithdrawal(r) ==
    /\ req[r].kind = "approveWithdrawal" /\ req[r].pc = "validated"
    /\ IF ~(req[r].ref \in DOMAIN withdrawals)
           THEN Respond(r, "WITHDRAWAL_NOT_FOUND")
       ELSE IF withdrawals[req[r].ref].status # "PENDING"
           THEN Respond(r, "INVALID_WITHDRAWAL_STATUS")
       ELSE IF balance[withdrawals[req[r].ref].userId]
                   < withdrawals[req[r].ref].amount
           THEN Respond(r, "INSUFFICIENT_BALANCE")
       ELSE Goto(r, "checked")
    /\ UNCHANGED <<accounts, tables, now, fraud>>

\* prisma.$transaction: update({ where: { id } }) sets APPROVED and the
\* user's balance is decremented.
ApproveWithdrawalTx(r) ==
    /\ req[r].kind = "approveWithdrawal" /\ req[r].pc = "checked"
    /\ withdrawals' = [withdrawals EXCEPT ![req[r].ref].status = "APPROVED"]
    /\ balance' = [balance EXCEPT ![withdrawals[req[r].ref].userId] =
                                      @ - withdrawals[req[r].ref].amount]
    /\ Respond(r, "ok")
    /\ UNCHANGED <<isSuspended, isDeleted, transactions, emailPayments,
                   disputes, now, fraud>>

\* A failure inside an admin handler's transaction: it rolls back.
AdminTxFail(r) ==
    /\ req[r].kind \in {"refundTransaction", "approveWithdrawal"}
    /\ req[r].pc = "checked"
    /\ Respond(r, FailureCode(req[r].kind))
    /\ UNCHANGED <<accounts, tables, now, fraud>>

(* ----------------------------- adjustBalance --------------------------- *)

\* The super admin's adjustment (the reason is given): a missing (zero)
\* amount is refused, any other is added to the balance by one update.
AdjustBalance(r, u, a) ==
    /\ CanStart(r)
    /\ LET q == [Idle EXCEPT !.kind = "adjustBalance", !.user = u, !.amt = a]
       IN  IF a = 0
               THEN /\ req' = [req EXCEPT ![r] = Done(q, "MISSING_FIELDS")]
                    /\ UNCHANGED balance
               ELSE /\ req' = [req EXCEPT ![r] = Done(q, "ok")]
                    /\ balance' = [balance EXCEPT ![u] = @ + a]
    /\ UNCHANGED <<isSuspended, isDeleted, tables, now, fraud>>

(* ------------------------------ clock ---------------------------------- *)

\* Time passes (one day).
Tick ==
    /\ now < MaxTime
    /\ now' = now + 1
    /\ UNCHANGED <<accounts, tables, req, fraud>>

(* --------------------------- specifications ---------------------------- *)

\* Account flags the ledger may start from: all active, or one account
\* suspended, or one account soft-deleted (deleteUser also suspends it).
FlagStates == {<<{}, {}>>} \cup {<<{u}, {}>> : u \in {"b"}}
                           \cup {<<{u}, {u}>> : u \in {"c"}}

InitAccounts ==
    /\ balance = InitBalance
    /\ \E f \in FlagStates :
          /\ isSuspended = [u \in Users |-> u \in f[1]]
          /\ isDeleted = [u \in Users |-> u \in f[2]]

InitP2P ==
    /\ InitAccounts
    /\ transactions = <<>>
    /\ emailPayments = <<>>
    /\ disputes = <<>>
    /\ withdrawals = <<>>
    /\ now = 0
    /\ req = [r \in Reqs |-> Idle]
    /\ InitNoRules

NextP2P ==
    \/ \E r \in Reqs, s \in Users, e \in EmailInputs, a \in AmountInputs :
          SendMoneyStart(r, s, e, a)
    \/ \E r \in Reqs : SendMoneyGetSender(r)
    \/ \E r \in Reqs : SendMoneyGetRecipient(r)
    \/ \E r \in Reqs : SendMoneyTxDebit(r)
    \/ \E r \in Reqs : SendMoneyTxCredit(r)
    \/ \E r \in Reqs : SendMoneyTxCreate(r)
    \/ \E r \in Reqs : SendMoneyTxFail(r)

SpecP2P == InitP2P /\ [][NextP2P]_vars

\* The escrow store starts with one pending email payment: a has sent 1 to
\* b's address, expiring at day 1.
InitHold == [senderId |-> "a", recipientEmail |-> "b", amount |-> 1,
             status |-> "PENDING", expiresAt |-> 1, claimedById |-> NoUser]

InitEscrow ==
    /\ balance = InitBalance
    /\ isSuspended = [u \in Users |-> FALSE]
    /\ isDeleted = [u \in Users |-> FALSE]
    /\ transactions = <<>>
    /\ emailPayments = <<InitHold>>
    /\ disputes = <<>>
    /\ withdrawals = <<>>
    /\ now = 0
    /\ req = [r \in Reqs |-> Idle]
    /\ InitNoRules

NextEscrow ==
    \/ NextP2P
    \/ \E r \in Reqs, s \in Users, e \in EmailInputs, a \in AmountInputs,
          d \in DaysInputs : SendViaEmailStart(r, s, e, a, d)
    \/ \E r \in Reqs : SendViaEmailGetSender(r)
    \/ \E r \in Reqs : SendViaEmailTx(r)
    \/ \E r \in Reqs, u \in Users, c \in IdInputs(emailPayments) :
          ClaimPaymentStart(r, u, c)
    \/ \E r \in Reqs : ClaimPaymentGetPayment(r)
    \/ \E r \in Reqs : ClaimPaymentGetUser(r)
    \/ \E r \in Reqs : ClaimPaymentTx(r)
    \/ \E r \in Reqs, u \in Users, i \in IdInputs(emailPayments) :
          CancelPaymentStart(r, u, i)
    \/ \E r \in Reqs : CancelPaymentGetPayment(r)
    \/ \E r \in Reqs : CancelPaymentTx(r)
    \/ \E r \in Reqs, i \in IdInputs(emailPayments) :
          CancelEmailPaymentStart(r, i)
    \/ \E r \in Reqs : CancelEmailPaymentGetPayment(r)
    \/ \E r \in Reqs : CancelEmailPaymentTx(r)
    \/ \E r \in Reqs : EscrowTxFail(r)
    \/ Tick

SpecEscrow == InitEscrow /\ [][NextEscrow]_vars

\* The whole ledger starts with a completed transfer of 1 from a to b, an
\* open dispute of a about it, a pending email payment and a pending
\* withdrawal of b.
InitTransaction == [senderId |-> "a", recipientId |-> "b", amount |-> 1,
                    transactionType |-> "P2P", status |-> "COMPLETED",
                    isRefunded |-> FALSE, isFlagged |-> FALSE, refOf |-> 0,
                    disputeId |-> 0,
                    createdAt |-> 0]

InitDispute == [userId |-> "a", transactionId |-> 1, status |-> "OPEN",
                refundAmount |-> 0]

InitWithdrawal == [userId |-> "b", amount |-> 1, status |-> "PENDING"]

Init ==
    /\ balance = InitBalance
    /\ isSuspended = [u \in Users |-> FALSE]
    /\ isDeleted = [u \in Users |-> FALSE]
    /\ transactions = <<InitTransaction>>
    /\ emailPayments = <<InitHold>>
    /\ disputes = <<InitDispute>>
    /\ withdrawals = <<InitWithdrawal>>
    /\ now = 0
    /\ req = [r \in Reqs |-> Idle]
    /\ InitNoRules

NextDispute ==
    \/ \E r \in Reqs, i \in IdInputs(disputes), a \in RefundInputs :
          ResolveDisputeStart(r, i, a)
    \/ \E r \in Reqs : ResolveDisputeGetDispute(r)
    \/ \E r \in Reqs : ResolveDisputeRefundTx(r)
    \/ \E r \in Reqs : ResolveDisputeUpdate(r)
    \/ \E r \in Reqs : ResolveDisputeFail(r)
    \/ \E r \in Reqs, i \in IdInputs(transactions) :
          RefundTransactionStart(r, i)
    \/ \E r \in Reqs : RefundTransactionGetTransaction(r)
    \/ \E r \in Reqs : RefundTransactionTx(r)
    \/ \E r \in Reqs : AdminTxFail(r)

SpecDispute == Init /\ [][NextDispute]_vars

Next ==
    \/ NextEscrow
    \/ NextDispute
    \/ \E r \in Reqs, i \in IdInputs(withdrawals) :
          ApproveWithdrawalStart(r, i)
    \/ \E r \in Reqs : ApproveWithdrawalGetWithdrawal(r)
    \/ \E r \in Reqs : ApproveWithdrawalTx(r)
    \/ \E r \in Reqs, u \in Users, a \in AmountInputs : AdjustBalance(r, u, a)

Spec == Init /\ [][Next]_vars

(* ------------------------------ ledger sums ---------------------------- *)

\* Sum of the amounts of the rows of a table whose indices are in rows.
SumAmounts(table, rows) ==
    LET f[i \in 0 .. Len(table)] ==
            IF i = 0 THEN 0
            ELSE f[i - 1] + (IF i \in rows THEN table[i].amount ELSE 0)
    IN  f[Len(table)]

TotalBalance == balance["a"] + balance["b"] + balance["c"]

IsPending(h) == h.status = "PENDING"

\* Value held in escrow: the amounts of the PENDING email payments.
PendingHeld ==
    SumAmounts(emailPayments,
               {i \in DOMAIN emailPayments : IsPending(emailPayments[i])})

\* A request has just returned with the given result.
Returns(r, k, code) ==
    /\ req[r].kind = k \/ (req[r].pc = "idle" /\ req'[r].kind = k)
    /\ req[r].pc # "done"
    /\ req'[r].pc = "done"
    /\ req'[r].result = code

OkRequests(kinds, h) ==
    {r \in Reqs : req[r].kind \in kinds /\ req[r].ref = h /\ req[r].result = "ok"}

(* ------------------------------- claims -------------------------------- *)

\* C1: in every reachable state every account's balance is >= 0.
C1_NoNegativeBalance == \A u \in Users : balance[u] >= 0

\* C2: the balance check and the debit of an account are serialized against
\* the other mutations of that account: whenever a debiting request (P2P
\* send or email-payment send) commits, the balance it debits still covers
\* its amount, so two requests that are each affordable alone but not
\* together cannot both succeed.
C2_DebitSerialized ==
    [][\A r \in Reqs :
          (Returns(r, "sendMoney", "ok") \/ Returns(r, "sendViaEmail", "ok"))
              => balance[req[r].user] >= req[r].amt]_vars

\* C3: conservation: over P2P transfers and email-payment create / claim /
\* cancel, the sum of all balances plus the PENDING email payments' amounts
\* never changes.
C3_Conservation ==
    TotalBalance + PendingHeld =
        InitBalance["a"] + InitBalance["b"] + InitBalance["c"] + InitHold.amount

\* C4: exactly-once claim: of the claim attempts on one email payment at
\* most one succeeds, and the claimant is credited (one EMAIL_PAYMENT
\* record) at most once.
C4_ExactlyOnceClaim ==
    \A h \in DOMAIN emailPayments :
        /\ Cardinality(OkRequests({"claimPayment"}, h)) <= 1
        /\ Cardinality({i \in DOMAIN transactions :
                           /\ transactions[i].transactionType = "EMAIL_PAYMENT"
                           /\ transactions[i].refOf = h}) <= 1

\* C5: an email payment's amount leaves escrow at most once: of all claims,
\* sender cancels and admin cancels of one payment at most one succeeds.
C5_LeavesEscrowOnce ==
    \A h \in DOMAIN emailPayments :
        Cardinality(OkRequests({"claimPayment", "cancelPayment",
                                "cancelEmailPayment"}, h)) <= 1

\* The REFUND records created for dispute d.
DisputeRefunds(d) ==
    {i \in DOMAIN transactions : /\ transactions[i].transactionType = "REFUND"
                                 /\ transactions[i].disputeId = d}

\* C7: however many resolve requests are issued for a dispute, they create
\* at most one compensating REFUND record, and exactly one, of refundAmount,
\* once the dispute is RESOLVED with a nonzero refundAmount.
C7_OneRefund ==
    \A d \in DOMAIN disputes :
        /\ Cardinality(DisputeRefunds(d)) <= 1
        /\ (disputes[d].status = "RESOLVED" /\ disputes[d].refundAmount > 0)
              => \E i \in DisputeRefunds(d) :
                    transactions[i].amount = disputes[d].refundAmount

IsP2P(t) == t.transactionType = "P2P"

\* C6: a P2P transfer's debit, credit and record commit as one unit: in
\* every state, also after a failure between them, each balance is the
\* initial balance plus the recorded transfers in minus the recorded
\* transfers out (no debit without its credit and its record).
C6_TransferAtomic ==
    \A u \in Users :
        LET In(t) == IsP2P(t) /\ t.recipientId = u
            Out(t) == IsP2P(t) /\ t.senderId = u
            Rows(Keep(_)) == {i \in DOMAIN transactions : Keep(transactions[i])}
        IN  balance[u] = InitBalance[u] + SumAmounts(transactions, Rows(In))
                                        - SumAmounts(transactions, Rows(Out))

\* C6 witness: a transfer failed after its debit and before its credit,
\* and another one committed.
C6_Witness ==
    \E r, q \in Reqs :
        /\ req[r].result = "SEND_MONEY_FAILED" /\ req[r].at = "txDebited"
        /\ req[q].kind = "sendMoney" /\ req[q].result = "ok"

\* C8: a successful P2P transfer of a from S to R takes exactly a from S,
\* gives exactly a to R, changes no other balance and appends exactly one
\* record (P2P, COMPLETED, a, S, R).
C8_TransferEffect ==
    [][\A r \in Reqs :
          Returns(r, "sendMoney", "ok") =>
              /\ balance' = [balance EXCEPT ![req[r].user] = @ - req[r].amt,
                                            ![req[r].rcpt] = @ + req[r].amt]
              /\ req[r].user # req[r].rcpt
              /\ Len(transactions') = Len(transactions) + 1
              /\ SubSeq(transactions', 1, Len(transactions)) = transactions
              /\ LET t == transactions'[Len(transactions')]
                 IN  /\ t.transactionType = "P2P" /\ t.status = "COMPLETED"
                     /\ t.amount = req[r].amt
                     /\ t.senderId = req[r].user
                     /\ t.recipientId = req[r].rcpt]_vars

\* C8 witness: a transfer of 2 from a to b has committed after another
\* request.
C8_Witness ==
    /\ Len(transactions) >= 1
    /\ transactions[Len(transactions)].transactionType = "P2P"
    /\ balance["b"] = InitBalance["b"] + 2
    /\ balance["c"] = InitBalance["c"]
    /\ \A r \in Reqs : req[r].pc = "done"

P2PRejections == {"MISSING_FIELDS", "INVALID_AMOUNT", "INSUFFICIENT_BALANCE",
                  "RECIPIENT_NOT_FOUND", "RECIPIENT_UNAVAILABLE",
                  "CANNOT_SEND_TO_SELF"}

\* C9: a P2P request that fails a precondition when the handler checks it
\* (amount not positive, amount above the sender's balance, recipient
\* missing, recipient suspended or deleted, sender equal to recipient) is
\* rejected with that precondition's code, and a rejected request leaves
\* every balance and the ledger unchanged.
C9_RejectedUnchanged ==
    [][\A r \in Reqs :
          /\ (req[r].pc = "idle" /\ req'[r].kind = "sendMoney"
                  /\ req'[r].pc # "done") => req'[r].amt > 0
          /\ (req[r].kind = "sendMoney" /\ req[r].pc = "validated"
                  /\ req'[r] # req[r] /\ balance[req[r].user] < req[r].amt)
                 => Returns(r, "sendMoney", "INSUFFICIENT_BALANCE")
          /\ (req[r].kind = "sendMoney" /\ req[r].pc = "gotSender"
                  /\ req'[r] # req[r])
                 => LET found == FindUserByEmail(ToLowerCase(req[r].email))
                    IN  /\ found = {}
                            => Returns(r, "sendMoney", "RECIPIENT_NOT_FOUND")
                        /\ \A u \in found :
                              /\ (isSuspended[u] \/ isDeleted[u])
                                    => Returns(r, "sendMoney",
                                               "RECIPIENT_UNAVAILABLE")
                              /\ (~isSuspended[u] /\ ~isDeleted[u]
                                      /\ u = req[r].user)
                                    => Returns(r, "sendMoney",
                                               "CANNOT_SEND_TO_SELF")
          /\ (\E code \in P2PRejections : Returns(r, "sendMoney", code))
                 => UNCHANGED <<balance, transactions>>]_vars

\* C9 witness: after a committed transfer, a request was rejected for
\* insufficient balance, the balances being those the transfer left.
C9_Witness ==
    \E r, q \in Reqs :
        /\ req[q].kind = "sendMoney" /\ req[q].result = "ok"
        /\ req[r].kind = "sendMoney"
        /\ req[r].result = "INSUFFICIENT_BALANCE"
        /\ r > q
        /\ Len(transactions) = 1

\* What C10 says of a committing create, given the expiry date the handler
\* computed.
CreateEffect(r) ==
    /\ balance' = [balance EXCEPT ![req[r].user] = @ - req[r].amt]
    /\ emailPayments' = Append(emailPayments,
           [senderId |-> req[r].user,
            recipientEmail |-> ToLowerCase(req[r].email),
            amount |-> req[r].amt, status |-> "PENDING",
            expiresAt |-> req[r].expiresAt, claimedById |-> NoUser])

\* The handler of a create has just computed its expiry date.
ComputesExpiry(r) ==
    /\ req[r].kind = "sendViaEmail" /\ req[r].pc = "validated"
    /\ req'[r].pc = "checked"

\* C10 as stated: a successful create debits the sender by exactly the
\* amount and in the same step creates one PENDING payment with that amount
\* and address, and expiresAt = creation time + expiryDays.
C10_CreateAsStated ==
    [][\A r \in Reqs :
          /\ Returns(r, "sendViaEmail", "ok") => CreateEffect(r)
          /\ ComputesExpiry(r) => req'[r].expiresAt = now + req[r].days]_vars

\* C10 amended: as stated, except that an expiryDays of zero (as an omitted
\* one) counts as 7: expiresAt = creation time + expiryDays when expiryDays
\* is not zero, and creation time + 7 when it is.
C10_CreateEffect ==
    [][\A r \in Reqs :
          /\ Returns(r, "sendViaEmail", "ok") => CreateEffect(r)
          /\ ComputesExpiry(r) =>
                req'[r].expiresAt =
                    now + (IF req[r].days = 0 THEN 7 ELSE req[r].days)]_vars

\* C10 witness: a created payment (after the initial one) is pending with a
\* defaulted expiry, and its sender has been debited.
C10_Witness ==
    \E i \in DOMAIN emailPayments :
        /\ i > 1
        /\ emailPayments[i].status = "PENDING"
        /\ emailPayments[i].expiresAt >= DefaultExpiryDays
        /\ balance[emailPayments[i].senderId]
               = InitBalance[emailPayments[i].senderId]
                     - emailPayments[i].amount

(* --------------------- claims on claim and cancel ---------------------- *)

\* The hold a claim or cancel request names.
HoldOf(r) == emailPayments[req[r].ref]

\* C11: a successful claim moves the hold from PENDING to CLAIMED, credits
\* the claimant by exactly the hold's amount and appends exactly one
\* COMPLETED record of type EMAIL_PAYMENT linked to the hold, all in one
\* step; a claim that finds the hold CLAIMED fails.
C11_ClaimEffect ==
    [][\A r \in Reqs :
          /\ Returns(r, "claimPayment", "ok") =>
                /\ HoldOf(r).status = "PENDING"
                /\ emailPayments' = [emailPayments EXCEPT
                       ![req[r].ref].status = "CLAIMED",
                       ![req[r].ref].claimedById = req[r].user]
                /\ balance' = [balance EXCEPT
                                  ![req[r].user] = @ + HoldOf(r).amount]
                /\ Len(transactions') = Len(transactions) + 1
                /\ SubSeq(transactions', 1, Len(transactions)) = transactions
                /\ LET t == transactions'[Len(transactions')]
                   IN  /\ t.transactionType = "EMAIL_PAYMENT"
                       /\ t.status = "COMPLETED"
                       /\ t.refOf = req[r].ref
                       /\ t.amount = HoldOf(r).amount
          /\ (/\ req[r].kind = "claimPayment" /\ req[r].pc = "validated"
              /\ req'[r] # req[r]
              /\ req[r].ref \in DOMAIN emailPayments
              /\ HoldOf(r).status = "CLAIMED")
                 => Returns(r, "claimPayment", "PAYMENT_NOT_FOUND")]_vars

ClaimRejections == {"PAYMENT_NOT_FOUND", "PAYMENT_EXPIRED", "UNAUTHORIZED"}

\* C12: a claim succeeds only if the hold is PENDING, expiresAt > now and
\* the claimant's e-mail equals the hold's recipientEmail; a rejected claim
\* changes no balance, no hold and no ledger record.
C12_ClaimPreconditions ==
    [][\A r \in Reqs :
          /\ Returns(r, "claimPayment", "ok") =>
                /\ HoldOf(r).status = "PENDING"
                /\ HoldOf(r).expiresAt > now
                /\ EmailOf(req[r].user) = HoldOf(r).recipientEmail
          /\ (\E code \in ClaimRejections : Returns(r, "claimPayment", code))
                 => UNCHANGED <<balance, emailPayments, transactions>>]_vars

\* C13: a cancel succeeds only when the hold is PENDING and, for the user's
\* cancel, the requester is the hold's sender; it refunds the sender exactly
\* the hold's amount and makes the hold CANCELLED; a cancel that finds the
\* hold cancelled or claimed fails with the invalid-status code.
C13_CancelOnce ==
    [][\A r \in Reqs :
          /\ (Returns(r, "cancelPayment", "ok")
                \/ Returns(r, "cancelEmailPayment", "ok")) =>
                /\ HoldOf(r).status = "PENDING"
                /\ req[r].kind = "cancelPayment"
                       => HoldOf(r).senderId = req[r].user
                /\ balance' = [balance EXCEPT
                                  ![HoldOf(r).senderId] = @ + HoldOf(r).amount]
                /\ emailPayments' = [emailPayments EXCEPT
                                        ![req[r].ref].status = "CANCELLED"]
          /\ (/\ req[r].kind \in {"cancelPayment", "cancelEmailPayment"}
              /\ req[r].pc = "validated" /\ req'[r] # req[r]
              /\ req[r].ref \in DOMAIN emailPayments
              /\ req[r].kind = "cancelPayment"
                     => HoldOf(r).senderId = req[r].user
              /\ HoldOf(r).status \in {"CANCELLED", "CLAIMED"})
                 => /\ Returns(r, "cancelPayment", "PAYMENT_NOT_PENDING")
                       \/ Returns(r, "cancelEmailPayment",
                                  "INVALID_PAYMENT_STATUS")
                    /\ UNCHANGED <<balance, emailPayments, transactions>>]_vars

(* ------------------------------ fileDispute ---------------------------- *)

\* The user's dispute about a transaction (reason and description given).
FileDisputeStart(r, u, t) ==
    /\ CanStart(r)
    /\ authenticateUser(u)
    /\ req' = [req EXCEPT ![r] = [Idle EXCEPT !.kind = "fileDispute",
                                    !.user = u, !.ref = t,
                                    !.pc = "validated"]]
    /\ UNCHANGED <<accounts, tables, now, fraud>>

\* FileDisputeGetTransaction, had the lookup been by id alone.
FileDisputeGetTransactionAnyUser(r) ==
    /\ req[r].kind = "fileDispute" /\ req[r].pc = "validated"
    /\ IF ~(req[r].ref \in DOMAIN transactions)
           THEN Respond(r, "TRANSACTION_NOT_FOUND")
           ELSE Goto(r, "gotTransaction")
    /\ UNCHANGED <<accounts, tables, now, fraud>>

\* findFirst({ id, OR: [{ senderId }, { recipientId }] })
FileDisputeGetTransaction(r) ==
    /\ req[r].kind = "fileDispute" /\ req[r].pc = "validated"
    /\ IF ~(/\ req[r].ref \in DOMAIN transactions
            /\ req[r].user \in {transactions[req[r].ref].senderId,
                                transactions[req[r].ref].recipientId})
           THEN Respond(r, "TRANSACTION_NOT_FOUND")
           ELSE Goto(r, "gotTransaction")
    /\ UNCHANGED <<accounts, tables, now, fraud>>

\* The disputes of user u about transaction t, whatever their status.
ExistingDisputes(u, t) ==
    {d \in DOMAIN disputes : /\ disputes[d].userId = u
                             /\ disputes[d].transactionId = t}

\* findFirst({ transactionId, userId }): any dispute of the pair blocks,
\* whatever its status.
FileDisputeGetExisting(r) ==
    /\ req[r].kind = "fileDispute" /\ req[r].pc = "gotTransaction"
    /\ IF ExistingDisputes(req[r].user, req[r].ref) # {}
           THEN Respond(r, "DISPUTE_EXISTS")
           ELSE Goto(r, "checked")
    /\ UNCHANGED <<accounts, tables, now, fraud>>

DisputeRecord(r) == [userId |-> req[r].user, transactionId |-> req[r].ref,
                     status |-> "OPEN", refundAmount |-> 0]

\* prisma.dispute.create: one insert, no check of the rows that exist now.
FileDisputeCreate(r) ==
    /\ req[r].kind = "fileDispute" /\ req[r].pc = "checked"
    /\ disputes' = Append(disputes, DisputeRecord(r))
    /\ Respond(r, "ok")
    /\ UNCHANGED <<accounts, transactions, emailPayments, withdrawals, now, fraud>>

\* The insert fails (datastore error): nothing is written.
FileDisputeFail(r) ==
    /\ req[r].kind = "fileDispute" /\ req[r].pc = "checked"
    /\ Respond(r, "FILE_DISPUTE_FAILED")
    /\ UNCHANGED <<accounts, tables, now, fraud>>

(* ------------------------------ assignDispute -------------------------- *)

AssignDisputeStart(r, id) ==
    /\ CanStart(r)
    /\ req' = [req EXCEPT ![r] = [Idle EXCEPT !.kind = "assignDispute",
                                    !.ref = id, !.pc = "validated"]]
    /\ UNCHANGED <<accounts, tables, now, fraud>>

AssignDisputeGetDispute(r) ==
    /\ req[r].kind = "assignDispute" /\ req[r].pc = "validated"
    /\ IF ~(req[r].ref \in DOMAIN disputes)
           THEN Respond(r, "DISPUTE_NOT_FOUND")
       ELSE IF disputes[req[r].ref].status \in {"RESOLVED", "CLOSED"}
           THEN Respond(r, "INVALID_DISPUTE_STATUS")
       ELSE Goto(r, "checked")
    /\ UNCHANGED <<accounts, tables, now, fraud>>

\* prisma.dispute.update({ where: { id } }): IN_PROGRESS, or a failure of
\* the update.
AssignDisputeUpdate(r) ==
    /\ req[r].kind = "assignDispute" /\ req[r].pc = "checked"
    /\ \/ /\ disputes' = [disputes EXCEPT ![req[r].ref].status = "IN_PROGRESS"]
          /\ Respond(r, "ok")
       \/ /\ UNCHANGED disputes
          /\ Respond(r, "ASSIGN_DISPUTE_FAILED")
    /\ UNCHANGED <<accounts, transactions, emailPayments, withdrawals, now, fraud>>

NextFiling ==
    \/ \E r \in Reqs, u \in Users, t \in IdInputs(transactions) :
          FileDisputeStart(r, u, t)
    \/ \E r \in Reqs : FileDisputeGetTransaction(r)
    \/ \E r \in Reqs : FileDisputeGetExisting(r)
    \/ \E r \in Reqs : FileDisputeCreate(r)
    \/ \E r \in Reqs : FileDisputeFail(r)
    \/ \E r \in Reqs, i \in IdInputs(disputes) : AssignDisputeStart(r, i)
    \/ \E r \in Reqs : AssignDisputeGetDispute(r)
    \/ \E r \in Reqs : AssignDisputeUpdate(r)
    \/ NextDispute

SpecFiling == Init /\ [][NextFiling]_vars

IsOpen(d) == d.status \in {"OPEN", "IN_PROGRESS"}

\* C14: in every reachable state each (filing account, transaction) pair
\* has at most one dispute in status OPEN or IN_PROGRESS.
C14_OneOpenDispute ==
    \A u \in Users, t \in DOMAIN transactions :
        Cardinality({d \in ExistingDisputes(u, t) : IsOpen(disputes[d])}) <= 1

(* -------------------------- claims on resolve -------------------------- *)

\* The dispute a resolve request names, and the transaction it is about.
DisputeOf(r) == disputes[req[r].ref]
DisputedTransaction(r) == transactions[DisputeOf(r).transactionId]

\* The handler of a resolve request evaluates its checks in this step.
ResolveChecks(r) ==
    /\ req[r].kind = "resolveDispute" /\ req[r].pc = "validated"
    /\ req'[r] # req[r]
    /\ req[r].ref \in DOMAIN disputes

\* C15: a resolve request that finds the dispute RESOLVED or CLOSED, or
\* whose refundAmount exceeds the original transaction's amount, is
\* rejected with that check's code, and a rejected resolve changes no
\* balance, no dispute and appends no ledger entry.
C15_ResolveRejected ==
    [][\A r \in Reqs :
          /\ (ResolveChecks(r) /\ DisputeOf(r).status \in {"RESOLVED", "CLOSED"})
                 => Returns(r, "resolveDispute", "DISPUTE_ALREADY_RESOLVED")
          /\ (/\ ResolveChecks(r)
              /\ DisputeOf(r).status \notin {"RESOLVED", "CLOSED"}
              /\ req[r].amt > DisputedTransaction(r).amount)
                 => Returns(r, "resolveDispute", "INVALID_REFUND_AMOUNT")
          /\ (\/ Returns(r, "resolveDispute", "DISPUTE_ALREADY_RESOLVED")
              \/ Returns(r, "resolveDispute", "INVALID_REFUND_AMOUNT")
              \/ Returns(r, "resolveDispute", "DISPUTE_NOT_FOUND"))
                 => UNCHANGED <<balance, transactions, disputes>>]_vars

\* C15 witness: a resolve with a refund succeeded, a later resolve of the
\* same dispute was rejected as already resolved, and one REFUND exists.
C15_Witness ==
    \E r, q \in Reqs :
        /\ req[q].kind = "resolveDispute" /\ req[q].result = "ok"
        /\ req[r].kind = "resolveDispute" /\ req[r].ref = req[q].ref
        /\ req[r].result = "DISPUTE_ALREADY_RESOLVED"
        /\ Cardinality(DisputeRefunds(req[q].ref)) = 1

\* The refund's transaction of a resolve request commits in this step.
ResolveRefunds(r) ==
    /\ req[r].kind = "resolveDispute" /\ req[r].pc = "checked"
    /\ req'[r].pc = "refunded"

\* C16: every dispute-resolution refund takes the amount from the original
\* transaction's recipient and gives it to the original transaction's
\* sender, and its REFUND record names the original recipient as sender and
\* the original sender as recipient, whoever filed the dispute.
C16_RefundDirection ==
    [][\A r \in Reqs :
          ResolveRefunds(r) =>
              LET o == DisputedTransaction(r)
                  t == transactions'[Len(transactions')]
              IN  /\ balance' = [balance EXCEPT
                                    ![o.recipientId] = @ - req[r].amt,
                                    ![o.senderId] = @ + req[r].amt]
                  /\ Len(transactions') = Len(transactions) + 1
                  /\ t.transactionType = "REFUND"
                  /\ t.senderId = o.recipientId
                  /\ t.recipientId = o.senderId
                  /\ t.amount = req[r].amt]_vars

\* C16 witness: a dispute filed by the original recipient was resolved with
\* a refund.
C16_Witness ==
    \E d \in DOMAIN disputes :
        /\ disputes[d].userId = transactions[disputes[d].transactionId].recipientId
        /\ disputes[d].status = "RESOLVED"
        /\ DisputeRefunds(d) # {}

(* ---------------- suspendUser / unsuspendUser / deleteUser ------------- *)

\* The admin suspends an account (the reason is given): one update.
SuspendUser(r, u) ==
    /\ CanStart(r)
    /\ isSuspended' = [isSuspended EXCEPT ![u] = TRUE]
    /\ req' = [req EXCEPT ![r] =
                  Done([Idle EXCEPT !.kind = "suspendUser", !.user = u], "ok")]
    /\ UNCHANGED <<balance, isDeleted, tables, now, fraud>>

UnsuspendUser(r, u) ==
    /\ CanStart(r)
    /\ isSuspended' = [isSuspended EXCEPT ![u] = FALSE]
    /\ req' = [req EXCEPT ![r] =
                  Done([Idle EXCEPT !.kind = "unsuspendUser", !.user = u], "ok")]
    /\ UNCHANGED <<balance, isDeleted, tables, now, fraud>>

\* The admin's soft delete (permanent not set): the account is marked
\* deleted and suspended by one update.
DeleteUser(r, u) ==
    /\ CanStart(r)
    /\ isDeleted' = [isDeleted EXCEPT ![u] = TRUE]
    /\ isSuspended' = [isSuspended EXCEPT ![u] = TRUE]
    /\ req' = [req EXCEPT ![r] =
                  Done([Idle EXCEPT !.kind = "deleteUser", !.user = u], "ok")]
    /\ UNCHANGED <<balance, tables, now, fraud>>

NextAccounts ==
    \/ \E r \in Reqs, u \in Users : SuspendUser(r, u)
    \/ \E r \in Reqs, u \in Users : UnsuspendUser(r, u)
    \/ \E r \in Reqs, u \in Users : DeleteUser(r, u)
    \/ NextP2P
    \/ NextDispute

SpecAccounts == Init /\ [][NextAccounts]_vars

\* C17: a resolution with refundAmount > 0 is subject to the transfer's
\* preconditions on the debited party: when the original recipient's
\* balance is below refundAmount, or that recipient is suspended or
\* deleted, the resolution fails, no balance changes and the dispute is
\* not marked RESOLVED.
C17_RefundPreconditions ==
    [][\A r \in Reqs :
          (/\ req[r].kind = "resolveDispute" /\ req[r].pc = "checked"
           /\ req'[r] # req[r]
           /\ LET rc == DisputedTransaction(r).recipientId
              IN  \/ balance[rc] < req[r].amt
                  \/ isSuspended[rc] \/ isDeleted[rc])
              => /\ Returns(r, "resolveDispute", "RESOLVE_DISPUTE_FAILED")
                 /\ UNCHANGED <<balance, transactions, disputes>>]_vars

\* C18: every P2P transfer commits with a sender and a recipient that are,
\* at the commit, neither suspended nor deleted; a transfer whose recipient
\* is suspended or deleted when the handler reads it is rejected and
\* changes nothing.
C18_ActiveParties ==
    [][\A r \in Reqs :
          /\ Returns(r, "sendMoney", "ok") =>
                \A u \in {req[r].user, req[r].rcpt} :
                    ~isSuspended[u] /\ ~isDeleted[u]
          /\ Returns(r, "sendMoney", "RECIPIENT_UNAVAILABLE")
                 => UNCHANGED <<balance, transactions>>]_vars

(* ------------------------ per-transaction ceiling ---------------------- *)

\* config.fees.maxTransactionAmount (MAX_TRANSACTION_AMOUNT unset).
maxTransactionAmount == 100000

\* Amounts at and just above the ceiling.
LargeAmounts == {maxTransactionAmount, maxTransactionAmount + 1}

\* Transfers of any amount, on accounts an admin may have funded with a
\* large adjustment.
NextCeiling ==
    \/ \E r \in Reqs, s \in Users, e \in EmailInputs, a \in LargeAmounts :
          SendMoneyStart(r, s, e, a)
    \/ \E r \in Reqs, u \in Users, a \in LargeAmounts : AdjustBalance(r, u, a)
    \/ NextP2P

SpecCeiling == InitP2P /\ [][NextCeiling]_vars

\* C19: a transfer whose amount is <= 0 or above the per-transaction
\* ceiling is rejected by the amount validation (INVALID_AMOUNT; a JSON
\* zero is answered MISSING_FIELDS by the check before it) and changes no
\* balance; no transfer of such an amount commits.
C19_AmountInRange ==
    [][\A r \in Reqs :
          /\ (/\ req[r].pc = "idle" /\ req'[r].kind = "sendMoney"
              /\ (req'[r].amt <= 0 \/ req'[r].amt > maxTransactionAmount))
                 => /\ req'[r].pc = "done"
                    /\ req'[r].result \in {"INVALID_AMOUNT", "MISSING_FIELDS"}
                    /\ UNCHANGED <<balance, transactions>>
          /\ Returns(r, "sendMoney", "ok")
                 => (req[r].amt > 0 /\ req[r].amt <= maxTransactionAmount)]_vars

(* -------------------------- ledger completeness ------------------------ *)

\* The ledger rows created since the initial state (the initial balances
\* include the initial transfer).
NewRows == {i \in DOMAIN transactions : i > 1}

\* C20: every change of a balance commits together with a transaction
\* record of it: in every reachable state each account's balance is its
\* initial balance plus the amounts of the records created since that name
\* it as recipient, minus those of the records that name it as sender.
C20_LedgerComplete ==
    \A u \in Users :
        balance[u] = InitBalance[u]
            + SumAmounts(transactions,
                         {i \in NewRows : transactions[i].recipientId = u})
            - SumAmounts(transactions,
                         {i \in NewRows : transactions[i].senderId = u})

(* ----------------------------- flagTransaction ------------------------- *)

\* The admin flags a transaction (the reason is given): one update keyed by
\* id, which fails when no such row exists.
FlagTransaction(r, id) ==
    /\ CanStart(r)
    /\ LET q == [Idle EXCEPT !.kind = "flagTransaction", !.ref = id]
       IN  IF id \in DOMAIN transactions
               THEN /\ transactions' = [transactions EXCEPT
                                           ![id].isFlagged = TRUE]
                    /\ req' = [req EXCEPT ![r] = Done(q, "ok")]
               ELSE /\ UNCHANGED transactions
                    /\ req' = [req EXCEPT ![r] =
                                  Done(q, "FLAG_TRANSACTION_FAILED")]
    /\ UNCHANGED <<accounts, emailPayments, disputes, withdrawals, now, fraud>>

NextHistory ==
    \/ \E r \in Reqs, i \in IdInputs(transactions) : FlagTransaction(r, i)
    \/ NextDispute

SpecHistory == Init /\ [][NextHistory]_vars

\* C21: a transaction record is immutable once its status is COMPLETED: no
\* step changes an existing COMPLETED record; refunds only append.
C21_CompletedImmutable ==
    [][\A i \in DOMAIN transactions :
          transactions[i].status = "COMPLETED"
              => (i \in DOMAIN transactions'
                    /\ transactions'[i] = transactions[i])]_vars

(* ------------------------------ fraud rules ---------------------------- *)

\* conditions.x || d: a missing or zero condition takes the default.
OrDefault(v, d) == IF v = 0 THEN d ELSE v

DefaultTimeWindowMinutes == 60
DefaultMaxTransactions == 10
DefaultThreshold == 10000
DefaultMaxAccountAgeDays == 7
DefaultMinAmount == 1000

\* The clock counts days.
MinutesPerDay == 1440

\* user.createdAt, in days: a registered 30 days before the start, b and c
\* on day 0.
UserCreatedAt == [u \in Users |-> IF u = "a" THEN 0 - 30 ELSE 0]

\* A rule row: its type, whether it is active, and its conditions (0: the
\* condition is not given).
Rule(type, active) ==
    [ruleType |-> type, isActive |-> active, timeWindowMinutes |-> 0,
     maxTransactions |-> 0, threshold |-> 0, maxAccountAgeDays |-> 0,
     minAmount |-> 0]

AmountRule(t) == [Rule("AMOUNT_THRESHOLD", TRUE) EXCEPT !.threshold = t]
VelocityRule(w, m) == [Rule("VELOCITY", TRUE) EXCEPT !.timeWindowMinutes = w,
                                                     !.maxTransactions = m]
NewUserRule(d, m) == [Rule("NEW_USER_HIGH_AMOUNT", TRUE) EXCEPT
                         !.maxAccountAgeDays = d, !.minAmount = m]

\* The rule tables the engine is run with (in the order findMany returns
\* the rows).
RuleSets ==
    { <<AmountRule(2), VelocityRule(60, 2)>>,
      <<NewUserRule(1, 1), AmountRule(1)>>,
      <<AmountRule(1), NewUserRule(1, 1)>>,
      <<[AmountRule(1) EXCEPT !.isActive = FALSE],
        Rule("GEOGRAPHIC_ANOMALY", TRUE), VelocityRule(0, 1)>> }

\* What checkTransaction can be given: see NoJob.
ArgKinds == {"id", "result", "full"}

\* An id is a string: it has no id, senderId, amount or sender field.
HasFields(j) == j.arg # "id"

Undefined == "undefined"
NoId == 0

\* transaction.id and transaction.senderId, as the evaluation j reads them.
ArgId(j) == IF HasFields(j) THEN j.tx ELSE NoId
ArgSenderId(j) == IF HasFields(j) THEN transactions[j.tx].senderId ELSE Undefined

\* prisma.transaction.count({ where: { senderId, createdAt: { gte } } }):
\* a filter whose value is undefined is not applied.
CountSince(senderId, windowMinutes) ==
    Cardinality({i \in DOMAIN transactions :
        /\ senderId # Undefined => transactions[i].senderId = senderId
        /\ transactions[i].createdAt * MinutesPerDay
               >= now * MinutesPerDay - windowMinutes})

checkVelocity(rule, j) ==
    CountSince(ArgSenderId(j),
               OrDefault(rule.timeWindowMinutes, DefaultTimeWindowMinutes))
        >= OrDefault(rule.maxTransactions, DefaultMaxTransactions)

\* Number(undefined) is NaN, and NaN >= threshold is false.
checkAmountThreshold(rule, j) ==
    /\ HasFields(j)
    /\ transactions[j.tx].amount >= OrDefault(rule.threshold, DefaultThreshold)

checkGeographicAnomaly(rule, j) == FALSE

\* transaction.sender.createdAt.getTime() throws when the argument has no
\* sender (an id) or a sender without createdAt (the created transaction).
NewUserThrows(j) == j.arg \in {"id", "result"}

checkNewUserHighAmount(rule, j) ==
    /\ now - UserCreatedAt[transactions[j.tx].senderId]
           < OrDefault(rule.maxAccountAgeDays, DefaultMaxAccountAgeDays)
    /\ transactions[j.tx].amount >= OrDefault(rule.minAmount, DefaultMinAmount)

\* evaluateRule: "throws", or whether the rule is triggered.
evaluateRule(rule, j) ==
    CASE rule.ruleType = "VELOCITY" ->
             IF checkVelocity(rule, j) THEN "true" ELSE "false"
      [] rule.ruleType = "AMOUNT_THRESHOLD" ->
             IF checkAmountThreshold(rule, j) THEN "true" ELSE "false"
      [] rule.ruleType = "GEOGRAPHIC_ANOMALY" ->
             IF checkGeographicAnomaly(rule, j) THEN "true" ELSE "false"
      [] rule.ruleType = "NEW_USER_HIGH_AMOUNT" ->
             IF NewUserThrows(j) THEN "throws"
             ELSE IF checkNewUserHighAmount(rule, j) THEN "true" ELSE "false"
      [] OTHER -> "false"

(* ---------------------------- checkTransaction ------------------------- *)

\* The evaluation moves to the next rule, or returns after the last one.
NextRule(j) ==
    IF j.idx + 1 > Len(j.rules)
        THEN [j EXCEPT !.pc = "done", !.idx = j.idx + 1]
        ELSE [j EXCEPT !.pc = "eval", !.idx = j.idx + 1]

\* fraudRule.findMany({ where: { isActive: true } }): the active rules, in
\* table order.
ActiveRules == SelectSeq([k \in DOMAIN fraudRules |-> k],
                         LAMBDA k : fraudRules[k].isActive)

FraudFindRules(r) ==
    /\ job[r].pc = "findRules"
    /\ job' = [job EXCEPT ![r] = NextRule([job[r] EXCEPT !.rules = ActiveRules])]
    /\ UNCHANGED <<accounts, tables, now, req, fraudRules, fraudAlerts, risk>>

\* One turn of the loop up to the alert: the rule is evaluated; a rule that
\* throws ends the evaluation (the loop has no try).
FraudEvaluateRule(r) ==
    /\ job[r].pc = "eval"
    /\ LET j == job[r]
           isTriggered == evaluateRule(fraudRules[j.rules[j.idx]], j)
       IN  job' = [job EXCEPT ![r] =
                      CASE isTriggered = "throws" -> [j EXCEPT !.pc = "failed"]
                        [] isTriggered = "true" -> [j EXCEPT !.pc = "create"]
                        [] OTHER -> NextRule(j)]
    /\ UNCHANGED <<accounts, tables, now, req, fraudRules, fraudAlerts, risk>>

\* fraudAlert.create for the triggered rule, pushed on the returned list.
NewAlert(j) ==
    [transactionId |-> ArgId(j), userId |-> ArgSenderId(j),
     ruleId |-> j.rules[j.idx],
     alertType |-> fraudRules[j.rules[j.idx]].ruleType]

\* FraudCreateAlert, had the engine also marked the transaction it alerts on.
FraudCreateAlertAndFlag(r) ==
    /\ job[r].pc = "create"
    /\ fraudAlerts' = Append(fraudAlerts, NewAlert(job[r]))
    /\ transactions' = [transactions EXCEPT ![job[r].tx].isFlagged = TRUE]
    /\ job' = [job EXCEPT ![r] =
                  NextRule([job[r] EXCEPT !.alerts = Append(@, job[r].rules[job[r].idx])])]
    /\ UNCHANGED <<accounts, emailPayments, disputes, withdrawals, now, req,
                   fraudRules, risk>>

FraudCreateAlert(r) ==
    /\ job[r].pc = "create"
    /\ fraudAlerts' = Append(fraudAlerts, NewAlert(job[r]))
    /\ job' = [job EXCEPT ![r] =
                  NextRule([job[r] EXCEPT !.alerts = Append(@, job[r].rules[job[r].idx])])]
    /\ UNCHANGED <<accounts, tables, now, req, fraudRules, risk>>

\* FraudFail, had the handler awaited the evaluation inside its try: the
\* rejection reaches the caller as SEND_MONEY_FAILED.
FraudFailPropagates(r) ==
    /\ \/ job[r].pc \in {"findRules", "create"}
       \/ /\ job[r].pc = "eval"
          /\ fraudRules[job[r].rules[job[r].idx]].ruleType = "VELOCITY"
    /\ job' = [job EXCEPT ![r].pc = "failed"]
    /\ req' = [req EXCEPT ![r].result = "SEND_MONEY_FAILED"]
    /\ UNCHANGED <<accounts, tables, now, fraudRules, fraudAlerts, risk>>

\* A datastore call of the evaluation rejects (findMany, count or create,
\* the last also when the alert's references are undefined): the evaluation
\* ends there; at the call site the rejection is caught and logged.
FraudFail(r) ==
    /\ \/ job[r].pc \in {"findRules", "create"}
       \/ /\ job[r].pc = "eval"
          /\ fraudRules[job[r].rules[job[r].idx]].ruleType = "VELOCITY"
    /\ job' = [job EXCEPT ![r].pc = "failed"]
    /\ UNCHANGED <<accounts, tables, now, req, fraudRules, fraudAlerts, risk>>

\* adminFraudService.checkTransaction(t), called on its own with an argument
\* of each kind.
CheckTransaction(r, id, kind) ==
    /\ CanStart(r)
    /\ id \in DOMAIN transactions
    /\ req' = [req EXCEPT ![r] =
                  Done([Idle EXCEPT !.kind = "checkTransaction", !.ref = id], "ok")]
    /\ job' = [job EXCEPT ![r] = StartJob(kind, id)]
    /\ UNCHANGED <<accounts, tables, now, fraudRules, fraudAlerts, risk>>

NextJob ==
    \/ \E r \in Reqs : FraudFindRules(r)
    \/ \E r \in Reqs : FraudEvaluateRule(r)
    \/ \E r \in Reqs : FraudCreateAlert(r)
    \/ \E r \in Reqs : FraudFail(r)

\* The ledger of Init with a rule table.
InitFraud ==
    /\ balance = InitBalance
    /\ isSuspended = [u \in Users |-> FALSE]
    /\ isDeleted = [u \in Users |-> FALSE]
    /\ transactions = <<InitTransaction>>
    /\ emailPayments = <<InitHold>>
    /\ disputes = <<InitDispute>>
    /\ withdrawals = <<InitWithdrawal>>
    /\ now = 0
    /\ req = [r \in Reqs |-> Idle]
    /\ fraudRules \in RuleSets
    /\ fraudAlerts = <<>>
    /\ job = [r \in Reqs |-> NoJob]
    /\ InitNoScores

\* Transfers and the evaluations they start.  (The specifications above
\* leave a started evaluation where it is: its steps write nothing but
\* alerts, see C23.)
NextFraud ==
    \/ NextP2P
    \/ NextJob
    \/ Tick

SpecFraud == InitFraud /\ [][NextFraud]_vars

\* The engine called on the transactions of the ledger.
NextEngine ==
    \/ \E r \in Reqs, i \in IdInputs(transactions), k \in ArgKinds :
          CheckTransaction(r, i, k)
    \/ NextFraud

SpecEngine == InitFraud /\ [][NextEngine]_vars

(* ------------------------------- C22 ----------------------------------- *)

\* C22: when the evaluation started by a committed transfer fails (a rule
\* throws or a datastore call rejects), the step changes no balance, no
\* transaction and no hold, and the response of the transfer, already
\* success, is not changed; from then on the transfer's row and the response
\* stay as they are.
C22_FailureContained ==
    [][\A r \in Reqs :
          /\ (req[r].kind = "sendMoney" /\ job[r].pc # "failed"
                  /\ job'[r].pc = "failed")
                => /\ req[r].result = "ok"
                   /\ req'[r] = req[r]
                   /\ UNCHANGED <<balance, transactions, emailPayments>>
          /\ (req[r].kind = "sendMoney" /\ job[r].pc = "failed")
                => /\ req'[r].result = "ok"
                   /\ transactions'[job[r].tx] = transactions[job[r].tx]
                   /\ transactions[job[r].tx].status = "COMPLETED"]_vars

\* A transfer has answered success and its evaluation has failed.
C22_Witness ==
    \E r \in Reqs : /\ req[r].kind = "sendMoney"
                    /\ req[r].result = "ok"
                    /\ job[r].pc = "failed"

(* ------------------------------- C23 ----------------------------------- *)

\* C23: every step of an evaluation leaves the balances, the transaction
\* records, the holds, the account flags, the disputes, the withdrawals and
\* the responses as they are; the only thing it may write is one new alert
\* at the end of the alert table.
C23_EvaluationReadOnly ==
    [][\A r \in Reqs :
          (job[r].pc # "none" /\ job'[r] # job[r])
              => /\ UNCHANGED <<accounts, tables, req, fraudRules>>
                 /\ \/ fraudAlerts' = fraudAlerts
                    \/ /\ Len(fraudAlerts') = Len(fraudAlerts) + 1
                       /\ SubSeq(fraudAlerts', 1, Len(fraudAlerts)) = fraudAlerts]_vars

\* An evaluation has returned after creating an alert, and the transaction
\* it was about is still COMPLETED.
C23_Witness ==
    \E r \in Reqs : /\ job[r].pc = "done"
                    /\ Len(job[r].alerts) > 0
                    /\ Len(fraudAlerts) > 0
                    /\ transactions[job[r].tx].status = "COMPLETED"

(* ------------------------------- C24 ----------------------------------- *)

\* The alerts an evaluation has created for rule k.
AlertsFor(j, k) == Cardinality({n \in DOMAIN j.alerts : j.alerts[n] = k})

\* C24: an evaluation that has returned has created no alert for an
\* inactive rule, at most one alert per rule, and, for an active
\* amount-threshold rule, one alert exactly when the transaction's amount is
\* at least the rule's threshold.
C24_OneAlertPerTrigger ==
    \A r \in Reqs :
       job[r].pc = "done" =>
          \A k \in DOMAIN fraudRules :
             /\ ~fraudRules[k].isActive => AlertsFor(job[r], k) = 0
             /\ AlertsFor(job[r], k) <= 1
             /\ (fraudRules[k].isActive /\ fraudRules[k].ruleType = "AMOUNT_THRESHOLD")
                   => (AlertsFor(job[r], k) = 1
                         <=> transactions[job[r].tx].amount
                                >= OrDefault(fraudRules[k].threshold, DefaultThreshold))

(* ------------------------------- C25 ----------------------------------- *)

\* The COMPLETED transactions sent by the sender of the evaluated
\* transaction within the rule's trailing window.
SentInWindow(j, rule) ==
    Cardinality({i \in DOMAIN transactions :
        /\ transactions[i].senderId = transactions[j.tx].senderId
        /\ transactions[i].status = "COMPLETED"
        /\ transactions[i].createdAt * MinutesPerDay
               >= now * MinutesPerDay
                    - OrDefault(rule.timeWindowMinutes, DefaultTimeWindowMinutes)})

\* The rule the evaluation is at.
RuleAt(j) == fraudRules[j.rules[j.idx]]

\* C25: whenever an evaluation evaluates a velocity rule, the rule triggers
\* (an alert is to be created) exactly when the sender of the transaction
\* has sent at least the rule's maximum of COMPLETED transactions within the
\* rule's window.
C25_VelocityExact ==
    [][\A r \in Reqs :
          (/\ job[r].pc = "eval"
           /\ RuleAt(job[r]).ruleType = "VELOCITY"
           /\ job'[r] # job[r]
           /\ job'[r].pc # "failed")
              => (job'[r].pc = "create"
                    <=> SentInWindow(job[r], RuleAt(job[r]))
                           >= OrDefault(RuleAt(job[r]).maxTransactions,
                                        DefaultMaxTransactions))]_vars

(* ------------------------------- C26 ----------------------------------- *)

\* The alerts of rule k that reference transaction t and its sender.
AlertsOn(t, k) ==
    {n \in DOMAIN fraudAlerts :
        /\ fraudAlerts[n].ruleId = k
        /\ fraudAlerts[n].transactionId = t
        /\ fraudAlerts[n].userId = transactions[t].senderId}

\* C26: once the evaluation started by a committed P2P transfer has
\* returned, for every active amount-threshold rule there is an alert of
\* that rule referencing the transfer and its sender if the amount is at
\* least the threshold, and none if the amount is below it.
C26_ThresholdAlert ==
    \A r \in Reqs :
       (req[r].kind = "sendMoney" /\ job[r].pc = "done") =>
          \A k \in DOMAIN fraudRules :
             (fraudRules[k].isActive /\ fraudRules[k].ruleType = "AMOUNT_THRESHOLD")
                => IF transactions[job[r].tx].amount
                         >= OrDefault(fraudRules[k].threshold, DefaultThreshold)
                       THEN AlertsOn(job[r].tx, k) # {}
                       ELSE AlertsOn(job[r].tx, k) = {}

(* ------------------------------- C27 ----------------------------------- *)

\* C27: an evaluation that has loaded its rules and has ended, by returning
\* or by a failure at one of the rules, has evaluated every rule it loaded:
\* no rule is left out because of what happened at a rule before it.
C27_EveryRuleEvaluated ==
    \A r \in Reqs :
       (job[r].pc \in {"done", "failed"} /\ job[r].idx >= 1)
           => job[r].idx >= Len(job[r].rules)

(* ------------------------------- C28 ----------------------------------- *)

NextSubmit ==
    \/ NextFraud
    \/ \E r \in Reqs, u \in Users, c \in IdInputs(emailPayments) :
          ClaimPaymentStart(r, u, c)
    \/ \E r \in Reqs : ClaimPaymentGetPayment(r)
    \/ \E r \in Reqs : ClaimPaymentGetUser(r)
    \/ \E r \in Reqs : ClaimPaymentTx(r)
    \/ NextDispute

SpecSubmit == InitFraud /\ [][NextSubmit]_vars

\* The evaluations of transaction i that have been started.
SubmissionsOf(i) == {r \in Reqs : job[r].pc # "none" /\ job[r].tx = i}

\* C29: every COMPLETED movement committed since the start (the ledger
\* starts with one record) has been submitted to the fraud engine.
C29_EveryMovementSubmitted ==
    \A i \in DOMAIN transactions :
       (i > Len(<<InitTransaction>>) /\ transactions[i].status = "COMPLETED")
           => SubmissionsOf(i) # {}

(* ------------------------------- C30 ----------------------------------- *)

\* C30: whenever an evaluation evaluates a new-user-high-amount rule, the
\* rule triggers (an alert is to be created) exactly when the sender's
\* account is younger than the rule's number of days and the amount is at
\* least the rule's minimum.
C30_NewUserExact ==
    [][\A r \in Reqs :
          (/\ job[r].pc = "eval"
           /\ RuleAt(job[r]).ruleType = "NEW_USER_HIGH_AMOUNT"
           /\ job'[r] # job[r])
              => (job'[r].pc = "create"
                    <=> /\ now - UserCreatedAt[transactions[job[r].tx].senderId]
                              < OrDefault(RuleAt(job[r]).maxAccountAgeDays,
                                          DefaultMaxAccountAgeDays)
                        /\ transactions[job[r].tx].amount
                              >= OrDefault(RuleAt(job[r]).minAmount,
                                           DefaultMinAmount))]_vars

(* ----------------------------- risk score ------------------------------ *)

\* The KYC states an account can be stored with: register stores NONE, the
\* scorer also tests for UNVERIFIED.
KycStates == {"NONE", "UNVERIFIED", "PENDING", "VERIFIED", "REJECTED"}

\* user.transactions with createdAt within the last 30 days.
RecentTransactions(u) ==
    {i \in DOMAIN transactions :
        /\ transactions[i].senderId = u
        /\ transactions[i].createdAt >= now - 30}

\* user.disputes with status OPEN or IN_PROGRESS.
ActiveDisputes(u) ==
    {i \in DOMAIN disputes :
        /\ disputes[i].userId = u
        /\ disputes[i].status \in {"OPEN", "IN_PROGRESS"}}

\* Factor 1: account age in days.
AccountAgeFactor(accountAgeDays) ==
    IF accountAgeDays < 7 THEN 20
    ELSE IF accountAgeDays < 30 THEN 10
    ELSE IF accountAgeDays < 90 THEN 5
    ELSE 0

\* Factor 2: KYC status.
KycFactor(kyc) ==
    IF kyc = "UNVERIFIED" THEN 15 ELSE IF kyc = "PENDING" THEN 10 ELSE 0

\* Factor 6: movement count over two thresholds.
VelocityFactor(txCount) ==
    (IF txCount > 20 THEN 10 ELSE 0) + (IF txCount > 50 THEN 15 ELSE 0)

\* The sum of the factors for account u, were its KYC state kyc.
RawScore(u, kyc) ==
    LET recent == RecentTransactions(u)
        failedTxCount ==
            Cardinality({i \in recent : transactions[i].status = "FAILED"})
        flaggedTxCount == Cardinality({i \in recent : transactions[i].isFlagged})
    IN  AccountAgeFactor(now - UserCreatedAt[u])
          + KycFactor(kyc)
          + failedTxCount * 3
          + flaggedTxCount * 5
          + Cardinality(ActiveDisputes(u)) * 10
          + (IF userIsFlagged[u] THEN 15 ELSE 0)
          + VelocityFactor(Cardinality(recent))

Min(a, b) == IF a <= b THEN a ELSE b

\* calculateUserRiskScore without Math.min.
calculateUserRiskScoreNoCap(userId) ==
    IF userId \notin Users THEN 0 ELSE RawScore(userId, kycStatus[userId])

calculateUserRiskScore(userId) ==
    IF userId \notin Users
        THEN 0
        ELSE Min(RawScore(userId, kycStatus[userId]), 100)

\* Ids a caller may pass: the accounts and one that is no account.
UserIdInputs == Users \cup {"nobody"}

\* The scorer called for an account: one read, then arithmetic.
CalculateUserRiskScore(r, userId) ==
    /\ CanStart(r)
    /\ req' = [req EXCEPT ![r] =
                  Done([Idle EXCEPT !.kind = "calculateUserRiskScore"], "ok")]
    /\ riskScore' = [riskScore EXCEPT
                        ![r] = [userId |-> userId,
                                score |-> calculateUserRiskScore(userId)]]
    /\ UNCHANGED <<accounts, tables, now, fraudRules, fraudAlerts, job,
                   kycStatus, userIsFlagged>>

\* Admin POST /users/:id/flag and /users/:id/unflag: one update by id.
FlagUser(r, u, flag) ==
    /\ CanStart(r)
    /\ userIsFlagged' = [userIsFlagged EXCEPT ![u] = flag]
    /\ req' = [req EXCEPT ![r] =
                  Done([Idle EXCEPT !.kind = IF flag THEN "flagUser"
                                                     ELSE "unflagUser"], "ok")]
    /\ UNCHANGED <<accounts, tables, now, fraudRules, fraudAlerts, job,
                   kycStatus, riskScore>>

\* Ledgers the scorer is run on: n transfers of b to a made on day 0, the
\* first failed FAILED and the first flagged flagged, and d open disputes of
\* b, one per transfer.
TxCounts == {0, 1, 21, 51}
MaxOpenDisputes == 3

RiskLedger(n, failed, flagged) ==
    [i \in 1 .. n |->
        [InitTransaction EXCEPT !.senderId = "b", !.recipientId = "a",
                                !.status = IF i <= failed THEN "FAILED"
                                                          ELSE "COMPLETED",
                                !.isFlagged = (i <= flagged)]]

RiskDisputes(d) ==
    [i \in 1 .. d |-> [InitDispute EXCEPT !.userId = "b", !.transactionId = i]]

\* Days the scorer is run on: b's account is 0, 7, 30 or 90 days old.
RiskDays == {0, 7, 30, 90}

InitRisk ==
    /\ balance = InitBalance
    /\ isSuspended = [u \in Users |-> FALSE]
    /\ isDeleted = [u \in Users |-> FALSE]
    /\ \E n \in TxCounts, failed \in 0 .. 1, flagged \in 0 .. 1,
          d \in 0 .. MaxOpenDisputes :
          /\ failed <= n /\ flagged <= n /\ d <= n
          /\ transactions = RiskLedger(n, failed, flagged)
          /\ disputes = RiskDisputes(d)
    /\ emailPayments = <<>>
    /\ withdrawals = <<>>
    /\ now \in RiskDays
    /\ req = [r \in Reqs |-> Idle]
    /\ fraudRules = <<>>
    /\ fraudAlerts = <<>>
    /\ job = [r \in Reqs |-> NoJob]
    /\ \E k \in KycStates :
          kycStatus = [u \in Users |-> IF u = "b" THEN k ELSE "VERIFIED"]
    /\ userIsFlagged = [u \in Users |-> FALSE]
    /\ riskScore = [r \in Reqs |-> NoScore]

NextRisk ==
    \/ \E r \in Reqs, id \in UserIdInputs : CalculateUserRiskScore(r, id)
    \/ \E r \in Reqs, u \in Users, flag \in BOOLEAN : FlagUser(r, u, flag)

SpecRisk == InitRisk /\ [][NextRisk]_vars

(* ------------------------------- C31 ----------------------------------- *)

\* C31: every score the scorer has returned is an integer from 0 to 100.
C31_ScoreInRange ==
    \A r \in Reqs : riskScore[r] # NoScore => riskScore[r].score \in 0 .. 100

\* A score has been returned for an account whose factors sum to more than
\* 100.
C31_Witness ==
    \E r \in Reqs :
       /\ riskScore[r] # NoScore
       /\ riskScore[r].userId \in Users
       /\ riskScore[r].score = 100
       /\ RawScore(riskScore[r].userId, kycStatus[riskScore[r].userId]) > 100

(* ------------------------------- C32 ----------------------------------- *)

\* The KYC states of an account that is not verified: the one register
\* stores for a new account, the one named unverified, and pending.
NotVerifiedStates == {"NONE", "UNVERIFIED", "PENDING"}

\* C32: whenever the scorer returns the score of an account whose KYC state
\* is that of a new account, unverified or pending, and whose factors sum to
\* at most 100, the score is strictly higher than the sum the same account
\* would have with the KYC state VERIFIED.
C32_KycRaisesScore ==
    [][\A r \in Reqs, u \in Users :
          (/\ riskScore[r] = NoScore
           /\ riskScore'[r] # NoScore
           /\ riskScore'[r].userId = u
           /\ kycStatus[u] \in NotVerifiedStates
           /\ RawScore(u, kycStatus[u]) <= 100)
              => riskScore'[r].score > RawScore(u, "VERIFIED")]_vars

(* ------------------------------- C33 ----------------------------------- *)

\* Account u is the sender or the recipient of transaction t.
IsParty(u, t) ==
    /\ t \in DOMAIN transactions
    /\ u \in {transactions[t].senderId, transactions[t].recipientId}

\* C33: a filing whose account is neither the sender nor the recipient of
\* the transaction it names is answered TRANSACTION_NOT_FOUND at the lookup
\* of the transaction and creates no dispute; every dispute that is created
\* is filed by a party of its transaction.
C33_FilerIsParty ==
    [][/\ \A r \in Reqs :
             (/\ req[r].kind = "fileDispute" /\ req[r].pc = "validated"
              /\ req'[r] # req[r]
              /\ ~IsParty(req[r].user, req[r].ref))
                 => /\ Returns(r, "fileDispute", "TRANSACTION_NOT_FOUND")
                    /\ UNCHANGED disputes
       /\ \A i \in DOMAIN disputes' :
             i \notin DOMAIN disputes
                 => IsParty(disputes'[i].userId, disputes'[i].transactionId)]_vars

\* c, no party of transfer 1 (a to b), has filed about it and was refused.
C33_Witness ==
    \E r \in Reqs :
       /\ req[r].kind = "fileDispute" /\ req[r].pc = "done"
       /\ req[r].ref \in DOMAIN transactions
       /\ ~IsParty(req[r].user, req[r].ref)
       /\ req[r].result = "TRANSACTION_NOT_FOUND"

(* ------------------------------- C34 ----------------------------------- *)

\* C34: a filing that, at its check for an existing dispute, finds only
\* RESOLVED or CLOSED disputes of its account about the transaction is not
\* refused as DISPUTE_EXISTS.
C34_ClosedDoesNotBlock ==
    [][\A r \in Reqs :
          (/\ req[r].kind = "fileDispute" /\ req[r].pc = "gotTransaction"
           /\ req'[r] # req[r]
           /\ ExistingDisputes(req[r].user, req[r].ref) # {}
           /\ \A d \in ExistingDisputes(req[r].user, req[r].ref) :
                 ~IsOpen(disputes[d]))
              => req'[r].result # "DISPUTE_EXISTS"]_vars

(* ------------------------------- C35 ----------------------------------- *)

\* The REFUND records that move money of transaction t back.
RefundsOf(t) ==
    {i \in DOMAIN transactions : /\ transactions[i].transactionType = "REFUND"
                                 /\ transactions[i].refOf = t}

\* C35: for every transaction, the amounts of the REFUND records made for
\* it, by admin refunds and by dispute resolutions together, sum to at most
\* the transaction's amount.
C35_RefundsBounded ==
    \A t \in DOMAIN transactions :
       transactions[t].transactionType # "REFUND"
           => SumAmounts(transactions, RefundsOf(t)) <= transactions[t].amount

(* ------------------------------- C36 ----------------------------------- *)

\* The REFUND records made by resolutions of dispute d.
RefundsFor(d) ==
    {i \in DOMAIN transactions : /\ transactions[i].transactionType = "REFUND"
                                 /\ transactions[i].disputeId = d}

\* C36: in no state has the refund of a dispute been applied (its REFUND
\* record committed with the balances) while the dispute is OPEN or
\* IN_PROGRESS.
C36_RefundWithResolved ==
    \A d \in DOMAIN disputes : IsOpen(disputes[d]) => RefundsFor(d) = {}

(* ------------------------------- C37 ----------------------------------- *)

\* C37: no step takes a RESOLVED dispute back to OPEN or IN_PROGRESS.
C37_StatusForward ==
    [][\A d \in DOMAIN disputes :
          disputes[d].status = "RESOLVED" => ~IsOpen(disputes'[d])]_vars

(* ------------------ requestWithdrawal / rejectWithdrawal --------------- *)

\* The user's withdrawal request (the address is given): the amount is
\* parsed and must be positive.
RequestWithdrawalStart(r, u, a) ==
    /\ CanStart(r)
    /\ authenticateUser(u)
    /\ LET q == [Idle EXCEPT !.kind = "requestWithdrawal", !.user = u,
                             !.amt = a, !.pc = "validated"]
       IN  req' = [req EXCEPT ![r] = IF a <= 0 THEN Done(q, "INVALID_AMOUNT")
                                               ELSE q]
    /\ UNCHANGED <<accounts, tables, now, fraud>>

\* findUnique({ where: { id: userId } }), the KYC check and the balance
\* check.
RequestWithdrawalGetUser(r) ==
    /\ req[r].kind = "requestWithdrawal" /\ req[r].pc = "validated"
    /\ IF kycStatus[req[r].user] # "VERIFIED"
           THEN Respond(r, "KYC_REQUIRED")
       ELSE IF balance[req[r].user] < req[r].amt
           THEN Respond(r, "INSUFFICIENT_BALANCE")
       ELSE Goto(r, "checked")
    /\ UNCHANGED <<accounts, tables, now, fraud>>

\* prisma.withdrawal.create: a PENDING request; the balance is not touched.
\* Or the insert fails.
RequestWithdrawalCreate(r) ==
    /\ req[r].kind = "requestWithdrawal" /\ req[r].pc = "checked"
    /\ \/ /\ withdrawals' = Append(withdrawals,
                 [userId |-> req[r].user, amount |-> req[r].amt,
                  status |-> "PENDING"])
          /\ Respond(r, "ok")
       \/ /\ UNCHANGED withdrawals
          /\ Respond(r, "REQUEST_WITHDRAWAL_FAILED")
    /\ UNCHANGED <<accounts, transactions, emailPayments, disputes, now, fraud>>

\* The admin's rejection (the reason is given).
RejectWithdrawalStart(r, id) ==
    /\ CanStart(r)
    /\ req' = [req EXCEPT ![r] = [Idle EXCEPT !.kind = "rejectWithdrawal",
                                    !.ref = id, !.pc = "validated"]]
    /\ UNCHANGED <<accounts, tables, now, fraud>>

\* findUnique({ where: { id } }) and the status check.
RejectWithdrawalGetWithdrawal(r) ==
    /\ req[r].kind = "rejectWithdrawal" /\ req[r].pc = "validated"
    /\ IF ~(req[r].ref \in DOMAIN withdrawals)
           THEN Respond(r, "WITHDRAWAL_NOT_FOUND")
       ELSE IF withdrawals[req[r].ref].status # "PENDING"
           THEN Respond(r, "INVALID_WITHDRAWAL_STATUS")
       ELSE Goto(r, "checked")
    /\ UNCHANGED <<accounts, tables, now, fraud>>

\* prisma.withdrawal.update({ where: { id } }): REJECTED, or a failure of
\* the update.
RejectWithdrawalUpdate(r) ==
    /\ req[r].kind = "rejectWithdrawal" /\ req[r].pc = "checked"
    /\ \/ /\ withdrawals' = [withdrawals EXCEPT ![req[r].ref].status = "REJECTED"]
          /\ Respond(r, "ok")
       \/ /\ UNCHANGED withdrawals
          /\ Respond(r, "REJECT_WITHDRAWAL_FAILED")
    /\ UNCHANGED <<accounts, transactions, emailPayments, disputes, now, fraud>>

NextWithdrawal ==
    \/ \E r \in Reqs, u \in Users, a \in AmountInputs :
          RequestWithdrawalStart(r, u, a)
    \/ \E r \in Reqs : RequestWithdrawalGetUser(r)
    \/ \E r \in Reqs : RequestWithdrawalCreate(r)
    \/ \E r \in Reqs, i \in IdInputs(withdrawals) :
          ApproveWithdrawalStart(r, i)
    \/ \E r \in Reqs : ApproveWithdrawalGetWithdrawal(r)
    \/ \E r \in Reqs : ApproveWithdrawalTx(r)
    \/ \E r \in Reqs : AdminTxFail(r)
    \/ \E r \in Reqs, i \in IdInputs(withdrawals) :
          RejectWithdrawalStart(r, i)
    \/ \E r \in Reqs : RejectWithdrawalGetWithdrawal(r)
    \/ \E r \in Reqs : RejectWithdrawalUpdate(r)

SpecWithdrawal == Init /\ [][NextWithdrawal]_vars

(* ------------------------------- C38 ----------------------------------- *)

\* C38: a withdrawal that is APPROVED or REJECTED keeps its status, and a
\* balance changes only in a step that takes one withdrawal from PENDING to
\* APPROVED, by that withdrawal's amount, off its user's balance.
C38_WithdrawalOnce ==
    [][/\ \A w \in DOMAIN withdrawals :
             withdrawals[w].status # "PENDING"
                 => withdrawals'[w].status = withdrawals[w].status
       /\ balance' # balance
             => \E w \in DOMAIN withdrawals :
                   /\ withdrawals[w].status = "PENDING"
                   /\ withdrawals'[w].status = "APPROVED"
                   /\ balance' = [balance EXCEPT ![withdrawals[w].userId] =
                                                     @ - withdrawals[w].amount]]_vars

(* --------------------------- extendEmailPayment ------------------------ *)

\* The admin's extension of a hold's expiry by a number of days, which must
\* be positive.
ExtendEmailPaymentStart(r, id, d) ==
    /\ CanStart(r)
    /\ LET q == [Idle EXCEPT !.kind = "extendEmailPayment", !.ref = id,
                             !.days = d, !.pc = "validated"]
       IN  req' = [req EXCEPT ![r] = IF d <= 0 THEN Done(q, "INVALID_DAYS")
                                               ELSE q]
    /\ UNCHANGED <<accounts, tables, now, fraud>>

\* findUnique({ where: { id } }) and the status check; the new expiry is
\* computed from the expiry read here, whether it has passed or not.
ExtendEmailPaymentGetPayment(r) ==
    /\ req[r].kind = "extendEmailPayment" /\ req[r].pc = "validated"
    /\ IF ~(req[r].ref \in DOMAIN emailPayments)
           THEN Respond(r, "EMAIL_PAYMENT_NOT_FOUND")
       ELSE IF emailPayments[req[r].ref].status # "PENDING"
           THEN Respond(r, "INVALID_PAYMENT_STATUS")
       ELSE req' = [req EXCEPT
                       ![r].pc = "checked",
                       ![r].expiresAt =
                           emailPayments[req[r].ref].expiresAt + req[r].days]
    /\ UNCHANGED <<accounts, tables, now, fraud>>

\* prisma.emailPayment.update({ where: { id }, data: { expiresAt } }), or a
\* failure of the update.
ExtendEmailPaymentUpdate(r) ==
    /\ req[r].kind = "extendEmailPayment" /\ req[r].pc = "checked"
    /\ \/ /\ emailPayments' = [emailPayments EXCEPT
                                  ![req[r].ref].expiresAt = req[r].expiresAt]
          /\ Respond(r, "ok")
       \/ /\ UNCHANGED emailPayments
          /\ Respond(r, "EXTEND_EMAIL_PAYMENT_FAILED")
    /\ UNCHANGED <<accounts, transactions, disputes, withdrawals, now, fraud>>

\* What can happen to a hold once it exists: claim, cancel by the sender or
\* by an admin, extension, and the passing of time.
NextExpiry ==
    \/ \E r \in Reqs, u \in Users, c \in IdInputs(emailPayments) :
          ClaimPaymentStart(r, u, c)
    \/ \E r \in Reqs : ClaimPaymentGetPayment(r)
    \/ \E r \in Reqs : ClaimPaymentGetUser(r)
    \/ \E r \in Reqs : ClaimPaymentTx(r)
    \/ \E r \in Reqs, u \in Users, i \in IdInputs(emailPayments) :
          CancelPaymentStart(r, u, i)
    \/ \E r \in Reqs : CancelPaymentGetPayment(r)
    \/ \E r \in Reqs : CancelPaymentTx(r)
    \/ \E r \in Reqs, i \in IdInputs(emailPayments) :
          CancelEmailPaymentStart(r, i)
    \/ \E r \in Reqs : CancelEmailPaymentGetPayment(r)
    \/ \E r \in Reqs : CancelEmailPaymentTx(r)
    \/ \E r \in Reqs : EscrowTxFail(r)
    \/ \E r \in Reqs, i \in IdInputs(emailPayments), d \in DaysInputs :
          ExtendEmailPaymentStart(r, i, d)
    \/ \E r \in Reqs : ExtendEmailPaymentGetPayment(r)
    \/ \E r \in Reqs : ExtendEmailPaymentUpdate(r)
    \/ Tick

SpecExpiry == InitEscrow /\ [][NextExpiry]_vars

(* ------------------------------- C39 ----------------------------------- *)

\* The hold's expiry has passed (the claim's check).
IsExpired(h) == h.expiresAt < now

\* C39: a PENDING hold whose expiry has passed never becomes claimable
\* again: after every step it is still expired, or no longer PENDING but
\* not CLAIMED.
C39_ExpiryPermanent ==
    [][\A i \in DOMAIN emailPayments :
          (emailPayments[i].status = "PENDING" /\ IsExpired(emailPayments[i]))
              => /\ emailPayments'[i].expiresAt < now'
                 /\ emailPayments'[i].status # "CLAIMED"]_vars

(* ------------------------------- C40 ----------------------------------- *)

\* C40: a PENDING hold whose expiry has passed is, after every step, still
\* PENDING with every balance as it was, or CANCELLED with its amount added
\* to its sender's balance; and a cancel that finds such a hold (its own,
\* for the sender's cancel) is not refused.
C40_ExpiredHoldWaits ==
    [][/\ \A i \in DOMAIN emailPayments :
             (emailPayments[i].status = "PENDING" /\ IsExpired(emailPayments[i]))
                 => \/ /\ emailPayments'[i].status = "PENDING"
                       /\ balance' = balance
                    \/ /\ emailPayments'[i].status = "CANCELLED"
                       /\ balance' = [balance EXCEPT
                                         ![emailPayments[i].senderId] =
                                             @ + emailPayments[i].amount]
       /\ \A r \in Reqs :
             (/\ req[r].kind \in {"cancelPayment", "cancelEmailPayment"}
              /\ req[r].pc = "validated"
              /\ req'[r] # req[r]
              /\ req[r].ref \in DOMAIN emailPayments
              /\ HoldOf(r).status = "PENDING"
              /\ IsExpired(HoldOf(r))
              /\ req[r].kind = "cancelPayment"
                    => HoldOf(r).senderId = req[r].user)
                 => req'[r].pc = "checked"]_vars

====
